---- MODULE Spec2Model ----
(***************************************************************************)
(* A model of the Wudao-Model pretraining / generation scripts.            *)
(*                                                                         *)
(*   SpecTrain  the training loop of Transformer-XL/pretrain_gpt2.py:      *)
(*              train, train_step, forward_step, backward_step, evaluate.  *)
(*                                                                         *)
(* The model (the network), the optimizer, the learning-rate scheduler,    *)
(* the DeepSpeed engine and torch.distributed are libraries: the model     *)
(* records the calls made on them and draws what they report (overflow)    *)
(* nondeterministically.                                                   *)
(***************************************************************************)
EXTENDS Integers, Sequences, FiniteSets, TLC

\* ----------------------------------------------------------------- bounds
\* Largest args.train_iters and largest starting args.iteration.
MaxIters == 3
\* Largest DeepSpeed gradient_accumulation_steps.
MaxGas == 2
\* Largest args.eval_iters.
MaxEvalIters == 2
\* Longest row of a batch (seq_length).
MaxSeq == 3
\* Largest args.mem_length.
MaxMem == 2
\* Highest rank of the model-parallel group (its ranks are 0..MaxRank).
MaxRank == 1
\* Longest prompt, in words.
MaxPromptLen == 3
\* Most prompts read_context rejects before one is accepted.
MaxRejects == 2
\* Largest tokenizer.num_tokens.
MaxTokens == 8
\* Largest args.make_vocab_size_divisible_by.
MaxDivisibleBy == 4
\* Largest args.out_seq_length.
MaxOut == 5
\* Largest max_position_embeddings and max_position_embeddings_finetune.
MaxPositions == 3
\* Most columns of a stored row of two lines, and half the length of the
\* longest templated sequence.
MaxRowCols == 2
\* Largest max_seq_length of the secondary-structure dataset.
MaxSeqLength == 3
\* Longest label list of a protein.
MaxLabels == 4

\* pretrain_gpt2.py line 19.
USE_TORCH_DDP == TRUE

VARIABLES
    \* ---- training loop (pretrain_gpt2.py: train and what it calls)
    args,           \* the argparse namespace: the fields train reads
    pc,             \* position in train / train_step / evaluate
    mems,           \* train's `mems`: 0 is the empty list [], k > 0 the mems
                    \* returned by the k-th forward call
    calls,          \* every model(...) call so far: who made it, mems in, mems out
    ops,            \* the library calls of the current train_step, in order
    skipped_iter,   \* train_step's return value
    skipped_iters,  \* train's accumulator
    training,       \* the model's mode: TRUE after model.train(), FALSE after model.eval()
    saved,          \* the tags save_checkpoint was called with, in order
    ev,             \* evaluate's locals: iteration, mems
    ds,             \* the DeepSpeed engine: gradient_accumulation_steps, micro_steps
    overflow,       \* optimizer.overflow as last reported
    hist,           \* bookkeeping of the run: starting iteration, calls counted
    \* ---- batch construction (get_batch, get_masks_and_position_ids)
    call,           \* the function called and its arguments
    ret,            \* what it returned
    \* ---- read_context (generate_samples.py), one process per rank of a
    \* model-parallel group
    gs_args,        \* the args of generate_samples.py: seq_length
    rc,             \* per rank: position and locals of read_context
    rbc,            \* the tensors the source rank has broadcast, in order
    console,        \* the messages rank 0 printed
    output,         \* the sample file: how many prompts were written to it
    \* ---- vocabulary padding: get_train_val_test_data (pretrain_gpt2.py), one
    \* process per rank of a model-parallel group, and prepare_tokenizer
    \* (generate_samples.py)
    dcfg,           \* which program runs, the group's size, the tokenizer, the option
    dt,             \* per rank: position and locals of get_train_val_test_data
    dbc,            \* the tensors the source rank has broadcast, in order
    pt,             \* position and locals of prepare_tokenizer
    \* ---- sample_sequence (generate_samples.py)
    ss_args,        \* args: out_seq_length, mem_length, eod_token, transformer_xl
    ss,             \* position and locals of sample_sequence
    ss_calls        \* the model calls it made, in order, with their arguments

trainVars == <<args, pc, mems, calls, ops, skipped_iter, skipped_iters, training,
               saved, ev, ds, overflow, hist>>

batchVars == <<call, ret>>

readVars == <<gs_args, rc, rbc, console, output>>

dataVars == <<dcfg, dt, dbc, pt>>

sampleVars == <<ss_args, ss, ss_calls>>

vars == <<trainVars, batchVars, readVars, dataVars, sampleVars>>

\* What an operation of one part leaves alone: the other parts.
notTrainVars == <<batchVars, readVars, dataVars, sampleVars>>
notBatchVars == <<trainVars, readVars, dataVars, sampleVars>>
notReadVars == <<trainVars, batchVars, dataVars, sampleVars>>
notDataVars == <<trainVars, batchVars, readVars, sampleVars>>
notSampleVars == <<trainVars, batchVars, readVars, dataVars>>

\* ------------------------------------------------------------ small helpers
Max(a, b) == IF a >= b THEN a ELSE b
Min(a, b) == IF a <= b THEN a ELSE b

\* The values an interval option takes: 0 stands for unset (None or 0, both
\* falsy in the conditions that read it).
Intervals == {0, 1, 2}

\* The batch functions are not running.
BatchIdle ==
    /\ call = [fn |-> "none"]
    /\ ret = [fn |-> "none"]

\* read_context is not running.
ReadIdle ==
    /\ gs_args = [seq_length |-> 1]
    /\ rc = <<>>
    /\ rbc = <<>>
    /\ console = <<>>
    /\ output = 0

\* Neither vocabulary padding program is running.
PtOff == [pc |-> "off", before |-> 0, after |-> 0, multiple |-> 1,
          tokenizer_num_tokens |-> 0, vocab_size |-> 0, eod_token |-> 0]

DataIdle ==
    /\ dcfg = [prog |-> "none"]
    /\ dt = <<>>
    /\ dbc = <<>>
    /\ pt = PtOff

\* sample_sequence is not running.
SampleIdle ==
    /\ ss_args = [out_seq_length |-> 0]
    /\ ss = [pc |-> "off"]
    /\ ss_calls = <<>>

\* =========================================================================
\* Transformer-XL/pretrain_gpt2.py: the training loop
\* =========================================================================

\* logits, *mems = model(tokens, position_ids, attention_mask, *mems):
\* the call is recorded with who made it (n: the train_step call, or the
\* iteration of evaluate, it belongs to) and the mems it was given, and returns
\* new mems.
model_call(cs, who, n, m) ==
    Append(cs, [who |-> who, n |-> n, in |-> m, out |-> Len(cs) + 1])

\* The checkpoint test made on the iteration before its increment.
SaveDueBeforeIncrement(a) ==
    a.save /\ a.save_interval # 0 /\ (a.iteration - 1) % a.save_interval = 0

\* if args.save and args.save_interval and args.iteration % args.save_interval == 0
SaveDue(a) ==
    a.save /\ a.save_interval # 0 /\ a.iteration % a.save_interval = 0

\* if args.eval_interval and args.iteration % args.eval_interval == 0 and args.do_valid
EvalDue(a) ==
    a.eval_interval # 0 /\ a.iteration % a.eval_interval = 0 /\ a.do_valid

\* if args.exit_interval and args.iteration % args.exit_interval == 0
ExitDue(a) ==
    a.exit_interval # 0 /\ a.iteration % a.exit_interval = 0

\* A scheduler step is skipped whenever fp16 is on, whatever the optimizer reports.
LrStepDueIgnoringOverflow(a, ovf) == ~a.fp16

\* not (args.fp16 and optimizer.overflow)
LrStepDue(a, ovf) == ~(a.fp16 /\ ovf)

\* The loop test made with <= : one step too many.
LoopCondInclusive(a) == a.iteration <= a.train_iters

\* while args.iteration < args.train_iters
LoopCond(a) == a.iteration < a.train_iters

\* DeepSpeed's is_gradient_accumulation_boundary():
\* (micro_steps + 1) % gradient_accumulation_steps == 0.
is_gradient_accumulation_boundary(d) == (d.micro_steps + 1) % d.gas = 0

ArgsDomain ==
    [iteration : 0..MaxIters, train_iters : 0..MaxIters,
     deepspeed : BOOLEAN, fp16 : BOOLEAN, clip_grad : {0, 1},
     save : BOOLEAN, save_interval : Intervals,
     eval_interval : Intervals, do_valid : BOOLEAN, eval_iters : 1..MaxEvalIters,
     exit_interval : Intervals]

TrainInit ==
    /\ args \in ArgsDomain
    /\ pc = "start"
    /\ mems = 0
    /\ calls = <<>>
    /\ ops = <<>>
    /\ skipped_iter = 0
    /\ skipped_iters = 0
    /\ training \in BOOLEAN
    /\ saved = <<>>
    /\ ev = [iteration |-> 0, mems |-> 0]
    /\ ds \in [gas : IF args.deepspeed THEN 1..MaxGas ELSE {1}, micro_steps : {0}]
    /\ overflow = FALSE
    /\ hist = [iteration0 |-> args.iteration, train_steps |-> 0, completed |-> 0,
               lr_steps |-> 0, overflows |-> 0, eval_forwards |-> 0]
    /\ BatchIdle
    /\ ReadIdle
    /\ DataIdle
    /\ SampleIdle

\* train is not running.
TrainIdle ==
    /\ args = [iteration |-> 0, train_iters |-> 0, deepspeed |-> FALSE,
               fp16 |-> FALSE, clip_grad |-> 0, save |-> FALSE, save_interval |-> 0,
               eval_interval |-> 0, do_valid |-> FALSE, eval_iters |-> 1,
               exit_interval |-> 0]
    /\ pc = "idle"
    /\ mems = 0
    /\ calls = <<>>
    /\ ops = <<>>
    /\ skipped_iter = 0
    /\ skipped_iters = 0
    /\ training = TRUE
    /\ saved = <<>>
    /\ ev = [iteration |-> 0, mems |-> 0]
    /\ ds = [gas |-> 1, micro_steps |-> 0]
    /\ overflow = FALSE
    /\ hist = [iteration0 |-> 0, train_steps |-> 0, completed |-> 0,
               lr_steps |-> 0, overflows |-> 0, eval_forwards |-> 0]

\* train, lines 488-499: model.train(); skipped_iters = 0; mems = [].
TrainStart ==
    /\ pc = "start"
    /\ training' = TRUE
    /\ skipped_iters' = 0
    /\ mems' = 0
    /\ pc' = "loop"
    /\ UNCHANGED <<args, calls, ops, skipped_iter, saved, ev, ds, overflow, hist>>
    /\ UNCHANGED notTrainVars

\* train, line 500 and line 550: the loop test; entering train_step, or returning.
TrainLoop ==
    /\ pc = "loop"
    /\ IF LoopCond(args)
         THEN /\ pc' = "forward"
              /\ ops' = <<>>
              /\ hist' = [hist EXCEPT !.train_steps = @ + 1]
         ELSE /\ pc' = "done"
              /\ UNCHANGED <<ops, hist>>
    /\ UNCHANGED <<args, mems, calls, skipped_iter, skipped_iters, training, saved,
                   ev, ds, overflow>>
    /\ UNCHANGED notTrainVars

\* The forward step with the returned mems dropped: the caller keeps the old ones.
ForwardStepKeepsOldMems ==
    /\ pc = "forward"
    /\ calls' = model_call(calls, "train", hist.train_steps, mems)
    /\ mems' = mems
    /\ ops' = Append(ops, "forward")
    /\ pc' = "backward"
    /\ UNCHANGED <<args, skipped_iter, skipped_iters, training, saved, ev, ds,
                   overflow, hist>>
    /\ UNCHANGED notTrainVars

\* train_step line 418 -> forward_step lines 325-347: the model is called with
\* the mems train_step holds, and what it returns replaces them.
ForwardStep ==
    /\ pc = "forward"
    /\ calls' = model_call(calls, "train", hist.train_steps, mems)
    /\ mems' = Len(calls) + 1
    /\ ops' = Append(ops, "forward")
    /\ pc' = "backward"
    /\ UNCHANGED <<args, skipped_iter, skipped_iters, training, saved, ev, ds,
                   overflow, hist>>
    /\ UNCHANGED notTrainVars

\* backward_step clipping the gradients before the master gradients are updated.
backward_ops_clip_first(a) ==
    (IF a.deepspeed
       THEN <<"model.backward">>
       ELSE <<"zero_grad", "backward">>)
    \o (IF a.deepspeed
          THEN <<>>
          ELSE <<"all_reduce", "div_world_size">>
               \o (IF ~USE_TORCH_DDP THEN <<"allreduce_params">> ELSE <<>>))
    \o (IF ~a.deepspeed /\ a.clip_grad > 0 THEN <<"clip_grad">> ELSE <<>>)
    \o (IF ~a.deepspeed /\ a.fp16 THEN <<"update_master_grads">> ELSE <<>>)

\* backward_step, lines 350-395: the library calls it makes, in order.
backward_ops(a) ==
    (IF a.deepspeed
       THEN <<"model.backward">>
       ELSE <<"zero_grad", "backward">>)
    \o (IF a.deepspeed
          THEN <<>>
          ELSE <<"all_reduce", "div_world_size">>
               \o (IF ~USE_TORCH_DDP THEN <<"allreduce_params">> ELSE <<>>))
    \o (IF ~a.deepspeed /\ a.fp16 THEN <<"update_master_grads">> ELSE <<>>)
    \o (IF ~a.deepspeed /\ a.clip_grad > 0 THEN <<"clip_grad">> ELSE <<>>)

\* train_step line 425.
BackwardStep ==
    /\ pc = "backward"
    /\ ops' = ops \o backward_ops(args)
    /\ pc' = "update"
    /\ UNCHANGED <<args, mems, calls, skipped_iter, skipped_iters, training, saved,
                   ev, ds, overflow, hist>>
    /\ UNCHANGED notTrainVars

\* train_step lines 429-451: the parameter update. optimizer.overflow is what the
\* fp16 optimizer reports after its step; it is read only when args.fp16.
OptimizerStep ==
    /\ pc = "update"
    /\ \E ovf \in (IF args.fp16 THEN BOOLEAN ELSE {FALSE}) :
         /\ overflow' = ovf
         /\ IF args.deepspeed
              THEN /\ ds' = [ds EXCEPT !.micro_steps = @ + 1]
                   /\ IF is_gradient_accumulation_boundary(ds)
                        THEN /\ ops' = ops \o <<"model.step">>
                                         \o (IF LrStepDue(args, ovf)
                                               THEN <<"lr_scheduler.step">> ELSE <<>>)
                             /\ skipped_iter' = IF LrStepDue(args, ovf) THEN 0 ELSE 1
                             /\ hist' = [hist EXCEPT
                                  !.lr_steps = IF LrStepDue(args, ovf) THEN @ + 1 ELSE @,
                                  !.overflows = IF args.fp16 /\ ovf THEN @ + 1 ELSE @]
                             /\ pc' = "post"
                        ELSE /\ ops' = ops \o <<"model.step">>
                             /\ skipped_iter' = 0
                             /\ pc' = "forward"
                             /\ UNCHANGED hist
              ELSE /\ ops' = ops \o <<"optimizer.step">>
                               \o (IF LrStepDue(args, ovf)
                                     THEN <<"lr_scheduler.step">> ELSE <<>>)
                   /\ skipped_iter' = IF LrStepDue(args, ovf) THEN 0 ELSE 1
                   /\ hist' = [hist EXCEPT
                        !.lr_steps = IF LrStepDue(args, ovf) THEN @ + 1 ELSE @,
                        !.overflows = IF args.fp16 /\ ovf THEN @ + 1 ELSE @]
                   /\ pc' = "post"
                   /\ UNCHANGED ds
    /\ UNCHANGED <<args, mems, calls, skipped_iters, training, saved, ev>>
    /\ UNCHANGED notTrainVars

\* train lines 502-534: train_step has returned; the skipped count and the
\* iteration are updated, then the checkpoint test is made on the new iteration.
TrainPost ==
    /\ pc = "post"
    /\ skipped_iters' = skipped_iters + skipped_iter
    /\ args' = [args EXCEPT !.iteration = @ + 1]
    /\ hist' = [hist EXCEPT !.completed = @ + 1]
    /\ saved' = IF SaveDue(args') THEN Append(saved, args'.iteration) ELSE saved
    /\ pc' = "evalcheck"
    /\ UNCHANGED <<mems, calls, ops, skipped_iter, training, ev, ds, overflow>>
    /\ UNCHANGED notTrainVars

\* train lines 537-540 -> evaluate lines 556-560: model.eval(); mems = [].
EvalCheck ==
    /\ pc = "evalcheck"
    /\ IF EvalDue(args)
         THEN /\ training' = FALSE
              /\ ev' = [iteration |-> 0, mems |-> 0]
              /\ pc' = "evaluate"
         ELSE /\ pc' = "exitcheck"
              /\ UNCHANGED <<training, ev>>
    /\ UNCHANGED <<args, mems, calls, ops, skipped_iter, skipped_iters, saved, ds,
                   overflow, hist>>
    /\ UNCHANGED notTrainVars

\* evaluate lines 563-568: one forward step on evaluate's own mems.
EvaluateForward ==
    /\ pc = "evaluate"
    /\ ev.iteration < args.eval_iters
    /\ calls' = model_call(calls, "eval", ev.iteration + 1, ev.mems)
    /\ ev' = [iteration |-> ev.iteration + 1, mems |-> Len(calls) + 1]
    /\ hist' = [hist EXCEPT !.eval_forwards = @ + 1]
    /\ UNCHANGED <<args, pc, mems, ops, skipped_iter, skipped_iters, training, saved,
                   ds, overflow>>
    /\ UNCHANGED notTrainVars

\* evaluate returning without model.train(): the model stays in evaluation mode.
EvaluateReturnKeepsEvalMode ==
    /\ pc = "evaluate"
    /\ ~(ev.iteration < args.eval_iters)
    /\ training' = training
    /\ pc' = "exitcheck"
    /\ UNCHANGED <<args, mems, calls, ops, skipped_iter, skipped_iters, saved, ev, ds,
                   overflow, hist>>
    /\ UNCHANGED notTrainVars

\* evaluate lines 584-588: model.train() and return.
EvaluateReturn ==
    /\ pc = "evaluate"
    /\ ~(ev.iteration < args.eval_iters)
    /\ training' = TRUE
    /\ pc' = "exitcheck"
    /\ UNCHANGED <<args, mems, calls, ops, skipped_iter, skipped_iters, saved, ev, ds,
                   overflow, hist>>
    /\ UNCHANGED notTrainVars

\* train lines 542-548: exit() at an exit interval, else back to the loop test.
ExitCheck ==
    /\ pc = "exitcheck"
    /\ pc' = IF ExitDue(args) THEN "exited" ELSE "loop"
    /\ UNCHANGED <<args, mems, calls, ops, skipped_iter, skipped_iters, training,
                   saved, ev, ds, overflow, hist>>
    /\ UNCHANGED notTrainVars

TrainNext ==
    \/ TrainStart
    \/ TrainLoop
    \/ ForwardStep
    \/ BackwardStep
    \/ OptimizerStep
    \/ TrainPost
    \/ EvalCheck
    \/ EvaluateForward
    \/ EvaluateReturn
    \/ ExitCheck

SpecTrain == TrainInit /\ [][TrainNext]_vars

\* The interpreter runs the loop to its end: every step that can be taken is.
FairSpecTrain == TrainInit /\ [][TrainNext]_vars /\ WF_vars(TrainNext)

\* =========================================================================
\* get_masks_and_position_ids and get_batch
\* (Transformer-XL/pretrain_gpt2.py and Transformer-XL/generate_samples.py)
\*
\* A tensor is a function over 0-based indices, as in the code: a (B, n) tensor
\* t is read t[b][i]. An optional argument is a sequence of at most one tensor:
\* <<>> is None, <<t>> the tensor t.
\* =========================================================================

\* torch.ones((d0, d1, d2))
ones3(d0, d1, d2) ==
    [b \in 0..(d0 - 1) |-> [i \in 0..(d1 - 1) |-> [j \in 0..(d2 - 1) |-> 1]]]

\* torch.triu keeping only the elements strictly above the diagonal.
triu_strict(m, diagonal) ==
    [b \in DOMAIN m |-> [i \in DOMAIN m[b] |-> [j \in DOMAIN m[b][i] |->
        IF j - i > diagonal THEN m[b][i][j] ELSE 0]]]

\* torch.triu(m, diagonal): the elements on and above the diagonal are kept,
\* the others set to 0 (on the last two dimensions).
triu(m, diagonal) ==
    [b \in DOMAIN m |-> [i \in DOMAIN m[b] |-> [j \in DOMAIN m[b][i] |->
        IF j - i >= diagonal THEN m[b][i][j] ELSE 0]]]

\* torch.tril with the test of triu: it keeps the upper part.
tril_keeps_upper(m, diagonal) ==
    [b \in DOMAIN m |-> [i \in DOMAIN m[b] |-> [j \in DOMAIN m[b][i] |->
        IF j - i >= diagonal THEN m[b][i][j] ELSE 0]]]

\* torch.tril(m, diagonal): the elements on and below the diagonal are kept.
tril(m, diagonal) ==
    [b \in DOMAIN m |-> [i \in DOMAIN m[b] |-> [j \in DOMAIN m[b][i] |->
        IF j - i <= diagonal THEN m[b][i][j] ELSE 0]]]

\* attention_mask.unsqueeze(1): a dimension of size 1 after the batch dimension.
unsqueeze1(m) == [b \in DOMAIN m |-> [h \in {0} |-> m[b]]]

\* data.size() of a (B, n) tensor.
batch_size_of(data) == Cardinality(DOMAIN data)
seq_length_of(data) == Cardinality(DOMAIN data[0])

\* The EOD indices cut down to the first one: later documents are not seen.
eod_index_first_only(row, eod_token) ==
    LET S == {i \in DOMAIN row : row[i] = eod_token}
    IN  [k \in 1..(IF S = {} THEN 0 ELSE 1) |->
            CHOOSE i \in S : \A x \in S : i <= x]

\* position_ids[b, data[b] == eod_token]: the indices of the EOD tokens of a
\* row, ascending, as a sequence.
eod_index_of(row, eod_token) ==
    LET S == {i \in DOMAIN row : row[i] = eod_token}
    IN  [k \in 1..Cardinality(S) |->
            CHOOSE i \in S : Cardinality({x \in S : x < i}) = k - 1]

\* Lines 252-261 (pretrain) / 139-148 (generate): the loop over the EOD indices
\* of row b. st holds the row's attention mask (att[0][i][j]), its position ids
\* and prev_index.
\* The reset starting at the EOD token itself instead of the token after it.
reset_positions_from_eod(pos, i, prev_index) ==
    [k \in DOMAIN pos |-> IF k >= i THEN pos[k] - (i - prev_index) ELSE pos[k]]

\* Line 260: position_ids[b, (i+1):] -= (i + 1 - prev_index)
reset_positions(pos, i, prev_index) ==
    [k \in DOMAIN pos |-> IF k >= i + 1 THEN pos[k] - (i + 1 - prev_index) ELSE pos[k]]

RECURSIVE eod_loop(_, _, _, _, _)
eod_loop(st, eod_index, j, reset_position_ids, reset_attention_mask) ==
    IF j > Len(eod_index)
      THEN st
      ELSE
        LET i == eod_index[j]
            att1 == IF reset_attention_mask
                      THEN [h \in DOMAIN st.att |-> [q \in DOMAIN st.att[h] |->
                              [k \in DOMAIN st.att[h][q] |->
                                 IF q >= i + 1 /\ k < i + 1 THEN 0
                                 ELSE st.att[h][q][k]]]]
                      ELSE st.att
            pos1 == IF reset_position_ids
                      THEN reset_positions(st.pos, i, st.prev_index)
                      ELSE st.pos
            prev1 == IF reset_position_ids THEN i + 1 ELSE st.prev_index
        IN  eod_loop([att |-> att1, pos |-> pos1, prev_index |-> prev1],
                     eod_index, j + 1, reset_position_ids, reset_attention_mask)

\* Lines 212-225 of pretrain_gpt2.py: the attention mask before the EOD loop.
attention_mask_of(batch_size, seq_length, reset_attention_mask, attention_mask, transformer_xl, mem_length) ==
    IF transformer_xl
      THEN LET am == IF attention_mask = <<>>
                       THEN ones3(1, seq_length, seq_length + mem_length)
                       ELSE attention_mask[1]
           IN  unsqueeze1(tril(triu(am, 1 - seq_length + mem_length), mem_length))
      ELSE LET att_mask_batch == IF reset_attention_mask THEN batch_size ELSE 1
               am == IF attention_mask = <<>>
                       THEN ones3(att_mask_batch, seq_length, seq_length)
                       ELSE attention_mask[1]
           IN  unsqueeze1(tril(am, 0))

\* The loss mask without line 236: the EOD positions keep their loss.
loss_mask_keeps_eod(data, eod_token, loss_mask, transformer_xl) ==
    IF loss_mask = <<>>
      THEN [b \in DOMAIN data |-> [i \in DOMAIN data[b] |-> 1]]
      ELSE loss_mask[1]

\* Lines 227-236: the loss mask; in non-XL mode it is zeroed at the EOD tokens
\* (in place: the caller's tensor is the one returned).
loss_mask_of(data, eod_token, loss_mask, transformer_xl) ==
    LET lm == IF loss_mask = <<>>
                THEN [b \in DOMAIN data |-> [i \in DOMAIN data[b] |-> 1]]
                ELSE loss_mask[1]
    IN  IF ~transformer_xl
          THEN [b \in DOMAIN data |-> [i \in DOMAIN data[b] |->
                  IF data[b][i] = eod_token THEN 0 ELSE lm[b][i]]]
          ELSE lm

\* pretrain_gpt2.py lines 201-263.
get_masks_and_position_ids(data, eod_token, reset_position_ids, reset_attention_mask, loss_mask, attention_mask, transformer_xl, mem_length) ==
    LET batch_size == batch_size_of(data)
        seq_length == seq_length_of(data)
        am0 == attention_mask_of(batch_size, seq_length, reset_attention_mask,
                                 attention_mask, transformer_xl, mem_length)
        lm == loss_mask_of(data, eod_token, loss_mask, transformer_xl)
        \* torch.arange(seq_length), expanded over the batch
        pos0 == [b \in DOMAIN data |-> [i \in 0..(seq_length - 1) |-> i]]
        loops == ~transformer_xl /\ (reset_position_ids \/ reset_attention_mask)
        row(b) == eod_loop([att |-> IF reset_attention_mask THEN am0[b] ELSE am0[0],
                            pos |-> pos0[b], prev_index |-> 0],
                           eod_index_of(data[b], eod_token), 1,
                           reset_position_ids, reset_attention_mask)
    IN  [attention_mask |->
            IF loops /\ reset_attention_mask
              THEN [b \in DOMAIN am0 |-> row(b).att]
              ELSE am0,
         loss_mask |-> lm,
         position_ids |->
            IF loops /\ reset_position_ids
              THEN [b \in DOMAIN data |-> row(b).pos]
              ELSE pos0]

\* t[:, :-1]: every row without its last element.
drop_last(t) ==
    [b \in DOMAIN t |-> [i \in 0..(seq_length_of(t) - 2) |-> t[b][i]]]

\* The labels taken from the same positions as the tokens: no shift.
drop_first_unshifted(t) ==
    [b \in DOMAIN t |-> [i \in 0..(seq_length_of(t) - 2) |-> t[b][i]]]

\* t[:, 1:]: every row without its first element.
drop_first(t) ==
    [b \in DOMAIN t |-> [i \in 0..(seq_length_of(t) - 2) |-> t[b][i + 1]]]

\* pretrain_gpt2.py lines 266-319: get_batch on the broadcast data data_b.
get_batch(data_b, a) ==
    LET labels == IF a.xl_dataset THEN data_b.target ELSE drop_first(data_b.text)
        loss_mask == IF a.xl_dataset THEN data_b.loss_mask
                     ELSE drop_first(data_b.loss_mask)
        tokens == IF a.xl_dataset THEN data_b.text ELSE drop_last(data_b.text)
        attention_mask == IF a.xl_dataset THEN <<data_b.attention_mask>> ELSE <<>>
        m == get_masks_and_position_ids(tokens, a.eod_token, a.reset_position_ids,
                                        a.reset_attention_mask, <<loss_mask>>,
                                        attention_mask, a.xl_dataset, a.mem_length)
    IN  [tokens |-> tokens, labels |-> labels, loss_mask |-> m.loss_mask,
         attention_mask |-> m.attention_mask, position_ids |-> m.position_ids]

\* ---- Transformer-XL/generate_samples.py: its own copy of the function

\* generate_samples.py lines 138-148: the loop over the EOD indices of a row.
RECURSIVE gs_eod_loop(_, _, _, _, _)
gs_eod_loop(st, eod_index, j, reset_position_ids, reset_attention_mask) ==
    IF j > Len(eod_index)
      THEN st
      ELSE
        LET i == eod_index[j]
            att1 == IF reset_attention_mask
                      THEN [h \in DOMAIN st.att |-> [q \in DOMAIN st.att[h] |->
                              [k \in DOMAIN st.att[h][q] |->
                                 IF q >= i + 1 /\ k < i + 1 THEN 0
                                 ELSE st.att[h][q][k]]]]
                      ELSE st.att
            pos1 == IF reset_position_ids
                      THEN [k \in DOMAIN st.pos |->
                              IF k >= i + 1 THEN st.pos[k] - (i + 1 - st.prev_index)
                              ELSE st.pos[k]]
                      ELSE st.pos
            prev1 == IF reset_position_ids THEN i + 1 ELSE st.prev_index
        IN  gs_eod_loop([att |-> att1, pos |-> pos1, prev_index |-> prev1],
                        eod_index, j + 1, reset_position_ids, reset_attention_mask)

\* generate_samples.py lines 88-150.
gs_get_masks_and_position_ids(data, eod_token, reset_position_ids, reset_attention_mask, loss_mask, attention_mask, transformer_xl, mem_length) ==
    LET batch_size == batch_size_of(data)
        seq_length == seq_length_of(data)
        am0 == IF transformer_xl
                 THEN LET am == IF attention_mask = <<>>
                                  THEN ones3(1, seq_length, seq_length + mem_length)
                                  ELSE attention_mask[1]
                      IN  unsqueeze1(tril(triu(am, 1 - seq_length + mem_length),
                                          mem_length))
                 ELSE LET att_mask_batch ==
                              IF reset_attention_mask THEN batch_size ELSE 1
                          am == IF attention_mask = <<>>
                                  THEN ones3(att_mask_batch, seq_length, seq_length)
                                  ELSE attention_mask[1]
                      IN  unsqueeze1(tril(am, 0))
        lm0 == IF loss_mask = <<>>
                 THEN [b \in DOMAIN data |-> [i \in DOMAIN data[b] |-> 1]]
                 ELSE loss_mask[1]
        lm == IF ~transformer_xl
                THEN [b \in DOMAIN data |-> [i \in DOMAIN data[b] |->
                        IF data[b][i] = eod_token THEN 0 ELSE lm0[b][i]]]
                ELSE lm0
        pos0 == [b \in DOMAIN data |-> [i \in 0..(seq_length - 1) |-> i]]
        loops == ~transformer_xl /\ (reset_position_ids \/ reset_attention_mask)
        row(b) == gs_eod_loop(
                      [att |-> IF reset_attention_mask THEN am0[b] ELSE am0[0],
                       pos |-> pos0[b], prev_index |-> 0],
                      eod_index_of(data[b], eod_token), 1,
                      reset_position_ids, reset_attention_mask)
    IN  [attention_mask |->
            IF loops /\ reset_attention_mask
              THEN [b \in DOMAIN am0 |-> row(b).att]
              ELSE am0,
         loss_mask |-> lm,
         position_ids |->
            IF loops /\ reset_position_ids
              THEN [b \in DOMAIN data |-> row(b).pos]
              ELSE pos0]

\* generate_samples.py lines 211-225: get_batch. main sets args.batch_size = 1,
\* so tokens.view(args.batch_size, -1) is the one row of the context tokens.
gs_get_batch(context_tokens, a) ==
    LET tokens == [b \in {0} |-> context_tokens]
        m == gs_get_masks_and_position_ids(tokens, a.eod_token, FALSE, FALSE,
                                           <<>>, <<>>, a.transformer_xl,
                                           a.mem_length)
    IN  [tokens |-> tokens, attention_mask |-> m.attention_mask,
         position_ids |-> m.position_ids]

\* ---- the inputs the batch functions are called with

\* Token ids: two are enough to tell the EOD token from the others.
Vocab == {0, 1}
BatchSizes == {1, 2}

Tensor2(B, n, V) == [0..(B - 1) -> [0..(n - 1) -> V]]

\* A loss-mask row: k ones, then zeros (what a padded sample carries).
PrefixRow(n, k) == [i \in 0..(n - 1) |-> IF i < k THEN 1 ELSE 0]
LossMasks(B, n) == {[b \in 0..(B - 1) |-> PrefixRow(n, k)] : k \in 0..n}

\* Attention masks of shape (A, n, m) handed in by the caller: all ones, or all
\* ones but one key column, which no query may attend.
AttentionMasks(A, n, m) ==
    {ones3(A, n, m)} \cup
    {[b \in 0..(A - 1) |-> [i \in 0..(n - 1) |-> [j \in 0..(m - 1) |->
         IF j = zj THEN 0 ELSE 1]]] : zj \in 0..(m - 1)}

Optional(S) == {<<>>} \cup {<<x>> : x \in S}

\* A direct call of get_masks_and_position_ids of pretrain_gpt2.py, non-XL.
CallGetMasks ==
    /\ call.fn = "none"
    /\ \E B \in BatchSizes, n \in 1..MaxSeq, eod_token \in Vocab,
          reset_position_ids \in BOOLEAN, reset_attention_mask \in BOOLEAN :
       \E data \in Tensor2(B, n, Vocab),
          loss_mask \in Optional(LossMasks(B, n)),
          attention_mask \in Optional(AttentionMasks(
                                IF reset_attention_mask THEN B ELSE 1, n, n)) :
         /\ call' = [fn |-> "get_masks_and_position_ids", data |-> data,
                     eod_token |-> eod_token,
                     reset_position_ids |-> reset_position_ids,
                     reset_attention_mask |-> reset_attention_mask,
                     loss_mask |-> loss_mask, attention_mask |-> attention_mask,
                     transformer_xl |-> FALSE, mem_length |-> 0]
         /\ ret' = get_masks_and_position_ids(data, eod_token, reset_position_ids,
                       reset_attention_mask, loss_mask, attention_mask, FALSE, 0)
    /\ UNCHANGED notBatchVars

\* A direct call of get_masks_and_position_ids of pretrain_gpt2.py in
\* Transformer-XL mode.
CallGetMasksXL ==
    /\ call.fn = "none"
    /\ \E B \in BatchSizes, n \in 1..MaxSeq, eod_token \in Vocab,
          mem_length \in 0..MaxMem :
       \E data \in Tensor2(B, n, Vocab),
          loss_mask \in Optional(LossMasks(B, n)),
          attention_mask \in Optional(AttentionMasks(1, n, n + mem_length)) :
         /\ call' = [fn |-> "get_masks_and_position_ids", data |-> data,
                     eod_token |-> eod_token,
                     reset_position_ids |-> FALSE,
                     reset_attention_mask |-> FALSE,
                     loss_mask |-> loss_mask, attention_mask |-> attention_mask,
                     transformer_xl |-> TRUE, mem_length |-> mem_length]
         /\ ret' = get_masks_and_position_ids(data, eod_token, FALSE, FALSE,
                       loss_mask, attention_mask, TRUE, mem_length)
    /\ UNCHANGED notBatchVars

\* get_batch of pretrain_gpt2.py on a non-XL dataset: rows of n + 1 tokens.
CallGetBatch ==
    /\ call.fn = "none"
    /\ \E B \in BatchSizes, n \in 1..MaxSeq, eod_token \in Vocab,
          reset_position_ids \in BOOLEAN, reset_attention_mask \in BOOLEAN :
       \E text \in Tensor2(B, n + 1, Vocab), loss_mask \in LossMasks(B, n + 1) :
         LET a == [xl_dataset |-> FALSE, eod_token |-> eod_token,
                   reset_position_ids |-> reset_position_ids,
                   reset_attention_mask |-> reset_attention_mask,
                   mem_length |-> 0]
             data_b == [text |-> text, loss_mask |-> loss_mask]
         IN  /\ call' = [fn |-> "get_batch", data_b |-> data_b, args |-> a]
             /\ ret' = get_batch(data_b, a)
    /\ UNCHANGED notBatchVars

\* get_batch of pretrain_gpt2.py on an XL dataset: the sample carries its
\* target, its loss mask and its attention mask.
CallGetBatchXL ==
    /\ call.fn = "none"
    /\ \E n \in 1..MaxSeq, eod_token \in Vocab, mem_length \in 0..MaxMem :
       \E text \in Tensor2(1, n, Vocab), target \in Tensor2(1, n, Vocab),
          loss_mask \in LossMasks(1, n),
          attention_mask \in AttentionMasks(1, n, n + mem_length) :
         LET a == [xl_dataset |-> TRUE, eod_token |-> eod_token,
                   reset_position_ids |-> FALSE,
                   reset_attention_mask |-> FALSE,
                   mem_length |-> mem_length]
             data_b == [text |-> text, target |-> target, loss_mask |-> loss_mask,
                        attention_mask |-> attention_mask]
         IN  /\ call' = [fn |-> "get_batch", data_b |-> data_b, args |-> a]
             /\ ret' = get_batch(data_b, a)
    /\ UNCHANGED notBatchVars

\* get_batch of generate_samples.py on the context tokens.
CallGenGetBatch ==
    /\ call.fn = "none"
    /\ \E n \in 1..MaxSeq, eod_token \in Vocab, transformer_xl \in BOOLEAN,
          mem_length \in 0..MaxMem :
       \E context_tokens \in [0..(n - 1) -> Vocab] :
         LET a == [eod_token |-> eod_token, transformer_xl |-> transformer_xl,
                   mem_length |-> mem_length]
         IN  /\ call' = [fn |-> "gs_get_batch", context_tokens |-> context_tokens,
                         args |-> a]
             /\ ret' = gs_get_batch(context_tokens, a)
    /\ UNCHANGED notBatchVars

\* A direct call of get_masks_and_position_ids of generate_samples.py, with no
\* attention mask supplied.
CallGenGetMasks ==
    /\ call.fn = "none"
    /\ \E B \in BatchSizes, n \in 1..MaxSeq, eod_token \in Vocab,
          reset_position_ids \in BOOLEAN, reset_attention_mask \in BOOLEAN,
          transformer_xl \in BOOLEAN, mem_length \in 0..MaxMem :
       \E data \in Tensor2(B, n, Vocab),
          loss_mask \in Optional(LossMasks(B, n)) :
         /\ transformer_xl => ~reset_position_ids /\ ~reset_attention_mask
         /\ ~transformer_xl => mem_length = 0
         /\ call' = [fn |-> "gs_get_masks_and_position_ids", data |-> data,
                     eod_token |-> eod_token,
                     reset_position_ids |-> reset_position_ids,
                     reset_attention_mask |-> reset_attention_mask,
                     loss_mask |-> loss_mask, attention_mask |-> <<>>,
                     transformer_xl |-> transformer_xl, mem_length |-> mem_length]
         /\ ret' = gs_get_masks_and_position_ids(data, eod_token,
                       reset_position_ids, reset_attention_mask, loss_mask, <<>>,
                       transformer_xl, mem_length)
    /\ UNCHANGED notBatchVars

BatchInit ==
    /\ BatchIdle
    /\ TrainIdle
    /\ ReadIdle
    /\ DataIdle
    /\ SampleIdle

BatchNext ==
    \/ CallGetMasks
    \/ CallGetMasksXL
    \/ CallGetBatch
    \/ CallGetBatchXL
    \/ CallGenGetBatch
    \/ CallGenGetMasks

SpecBatch == BatchInit /\ [][BatchNext]_vars

\* =========================================================================
\* Transformer-XL/generate_samples.py: read_context, run by every rank of a
\* model-parallel group. torch.distributed.broadcast is a collective: the k-th
\* broadcast of a rank delivers what the source rank passed to its k-th.
\* =========================================================================

Ranks == 0..MaxRank

\* mpu.get_model_parallel_src_rank(): the first rank of the group.
SrcRank == 0

\* A prompt is a sequence of words; "" is <<>>, "stop" is <<"stop">>.
Words == {"a", "stop"}
Prompts == UNION {[1..n -> Words] : n \in 0..MaxPromptLen}

\* tokenizer.EncodeAsIds(raw_text).tokenization: one id per word.
WordId(w) == IF w = "a" THEN 1 ELSE 2
EncodeAsIds(raw_text) == [k \in 1..Len(raw_text) |-> WordId(raw_text[k])]

\* tokenizer.DecodeIds(ids): the words of the ids.
DecodeIds(ids) == [k \in 1..Len(ids) |-> IF ids[k] = 1 THEN "a" ELSE "stop"]

\* The length test letting a context of exactly seq_length tokens through.
TooLongStrict(context_length, sl) == context_length > sl

\* if context_length >= args.seq_length
TooLong(context_length, sl) == context_length >= sl

\* The receiver keeps its own buffer: nothing is received.
broadcast_not_received(buffer, sent) == buffer

\* torch.distributed.broadcast(tensor, src) on a non-source rank: the buffer is
\* overwritten, element by element, with what the source sent.
broadcast_recv(buffer, sent) ==
    [k \in 1..Len(buffer) |-> IF k <= Len(sent) THEN sent[k] ELSE buffer[k]]

ReadInit ==
    /\ gs_args \in [seq_length : 1..MaxPromptLen]
    /\ rc = [r \in Ranks |->
               [pc |-> "start", terminate_runs |-> 0, raw_text |-> <<>>,
                context_tokens |-> <<>>, context_length |-> 0,
                context_tokens_tensor |-> <<>>, ret |-> <<>>]]
    /\ rbc = <<>>
    /\ console = <<>>
    /\ output = 0
    /\ TrainIdle
    /\ BatchIdle
    /\ DataIdle
    /\ SampleIdle

\* Lines 296-297 and 315-316: the locals; rank 0 goes on to prompt.
ReadStart(r) ==
    /\ rc[r].pc = "start"
    /\ rc' = [rc EXCEPT ![r] = [@ EXCEPT
                !.terminate_runs = 0,
                !.context_length = 0,
                !.pc = IF r = 0 THEN "prompt" ELSE "bcast_terminate"]]
    /\ UNCHANGED <<gs_args, rbc, console, output>>
    /\ UNCHANGED notReadVars

\* Lines 298-314, one turn of rank 0's loop on the prompt the user typed.
ReadPrompt(raw_text) ==
    /\ rc[0].pc = "prompt"
    /\ IF raw_text = <<>>
         THEN \* print('Prompt should not be empty!'); continue
              /\ Len(console) < MaxRejects
              /\ console' = Append(console, "Prompt should not be empty!")
              /\ rc' = [rc EXCEPT ![0] = [@ EXCEPT !.raw_text = raw_text]]
              /\ UNCHANGED output
         ELSE IF raw_text = <<"stop">>
         THEN \* terminate_runs = 1; break
              /\ rc' = [rc EXCEPT ![0] = [@ EXCEPT !.raw_text = raw_text,
                          !.terminate_runs = 1, !.pc = "bcast_terminate"]]
              /\ UNCHANGED <<console, output>>
         ELSE LET context_tokens == EncodeAsIds(raw_text)
                  context_length == Len(context_tokens)
              IN  /\ output' = output + 1
                  /\ IF TooLong(context_length, gs_args.seq_length)
                       THEN /\ Len(console) < MaxRejects
                            /\ console' = Append(console,
                                 "Please give smaller context than the window length!")
                            /\ rc' = [rc EXCEPT ![0] = [@ EXCEPT
                                 !.raw_text = raw_text,
                                 !.context_tokens = context_tokens,
                                 !.context_length = context_length]]
                       ELSE /\ rc' = [rc EXCEPT ![0] = [@ EXCEPT
                                 !.raw_text = raw_text,
                                 !.context_tokens = context_tokens,
                                 !.context_length = context_length,
                                 !.pc = "bcast_terminate"]]
                            /\ UNCHANGED console
    /\ UNCHANGED <<gs_args, rbc>>
    /\ UNCHANGED notReadVars

\* Lines 318-324: the broadcast of terminate_runs, and the return when it is 1.
ReadBroadcastTerminate(r) ==
    /\ rc[r].pc = "bcast_terminate"
    /\ IF r = SrcRank THEN Len(rbc) = 0 ELSE Len(rbc) >= 1
    /\ LET tensor == <<rc[r].terminate_runs>>
           got == IF r = SrcRank THEN tensor ELSE broadcast_recv(tensor, rbc[1])
       IN  /\ rbc' = IF r = SrcRank THEN Append(rbc, tensor) ELSE rbc
           /\ rc' = [rc EXCEPT ![r] = [@ EXCEPT
                       !.terminate_runs = got[1],
                       !.ret = IF got[1] = 1
                                 THEN <<[terminate_runs |-> got[1], raw_text |-> "None",
                                         context_tokens_tensor |-> "None",
                                         context_length |-> "None"]>>
                                 ELSE <<>>,
                       !.pc = IF got[1] = 1 THEN "returned" ELSE "bcast_length"]]
    /\ UNCHANGED <<gs_args, console, output>>
    /\ UNCHANGED notReadVars

\* Lines 326-330: the broadcast of the context length.
ReadBroadcastLength(r) ==
    /\ rc[r].pc = "bcast_length"
    /\ IF r = SrcRank THEN Len(rbc) = 1 ELSE Len(rbc) >= 2
    /\ LET tensor == <<rc[r].context_length>>
           got == IF r = SrcRank THEN tensor ELSE broadcast_recv(tensor, rbc[2])
       IN  /\ rbc' = IF r = SrcRank THEN Append(rbc, tensor) ELSE rbc
           /\ rc' = [rc EXCEPT ![r] = [@ EXCEPT
                       !.context_length = got[1],
                       !.pc = "bcast_tokens"]]
    /\ UNCHANGED <<gs_args, console, output>>
    /\ UNCHANGED notReadVars

\* A receive buffer one element short of the broadcast length.
context_tokens_buffer_short(context_length) == [k \in 1..(context_length - 1) |-> 0]

\* Line 334: torch.cuda.LongTensor([0] * context_length)
context_tokens_buffer(context_length) == [k \in 1..context_length |-> 0]

\* Lines 331-339: the broadcast of the context tokens, and the return.
ReadBroadcastTokens(r) ==
    /\ rc[r].pc = "bcast_tokens"
    /\ IF r = SrcRank THEN Len(rbc) = 2 ELSE Len(rbc) >= 3
    /\ LET tensor == IF r = 0 THEN rc[r].context_tokens
                     ELSE context_tokens_buffer(rc[r].context_length)
           got == IF r = SrcRank THEN tensor ELSE broadcast_recv(tensor, rbc[3])
           raw_text == IF r # 0 THEN DecodeIds(got) ELSE rc[r].raw_text
       IN  /\ rbc' = IF r = SrcRank THEN Append(rbc, tensor) ELSE rbc
           /\ rc' = [rc EXCEPT ![r] = [@ EXCEPT
                       !.context_tokens_tensor = got,
                       !.raw_text = raw_text,
                       !.ret = <<[terminate_runs |-> rc[r].terminate_runs,
                                  raw_text |-> raw_text,
                                  context_tokens_tensor |-> got,
                                  context_length |-> rc[r].context_length]>>,
                       !.pc = "returned"]]
    /\ UNCHANGED <<gs_args, console, output>>
    /\ UNCHANGED notReadVars

ReadNext ==
    \/ \E r \in Ranks : ReadStart(r)
    \/ \E raw_text \in Prompts : ReadPrompt(raw_text)
    \/ \E r \in Ranks : ReadBroadcastTerminate(r)
    \/ \E r \in Ranks : ReadBroadcastLength(r)
    \/ \E r \in Ranks : ReadBroadcastTokens(r)

SpecRead == ReadInit /\ [][ReadNext]_vars

\* =========================================================================
\* Vocabulary padding: get_train_val_test_data of pretrain_gpt2.py, run by
\* every rank of a model-parallel group, and prepare_tokenizer of
\* generate_samples.py.
\* =========================================================================

\* int(flag) of a Python bool.
int(flag) == IF flag THEN 1 ELSE 0

\* The padding test on the size before the increment: stops one step late.
pad_more_stale(after, multiple) == (after - 1) % multiple # 0

\* while (after % multiple) != 0
pad_more(after, multiple) == after % multiple # 0

\* The ranks of the group in this run.
DataRanks == 0..(dcfg.world_size - 1)

DataInit ==
    /\ dcfg \in [prog : {"get_train_val_test_data", "prepare_tokenizer"},
                 world_size : 1..(MaxRank + 1),
                 make_vocab_size_divisible_by : 1..MaxDivisibleBy,
                 num_tokens : 1..MaxTokens,
                 eod_token : {0, 1}]
    /\ dcfg.prog = "prepare_tokenizer" => dcfg.world_size = 1
    /\ IF dcfg.prog = "get_train_val_test_data"
         THEN /\ \E f0 \in [do_train : BOOLEAN, do_valid : BOOLEAN, do_test : BOOLEAN],
                    fx \in BOOLEAN :
                  dt = [r \in DataRanks |->
                         [pc |-> "start",
                          train_data |-> "None", val_data |-> "None",
                          test_data |-> "None",
                          before |-> 0, after |-> 0, multiple |-> 1,
                          token_counts |-> <<>>,
                          do_train |-> IF r = 0 THEN int(f0.do_train) ELSE int(fx),
                          do_valid |-> IF r = 0 THEN int(f0.do_valid) ELSE int(fx),
                          do_test |-> IF r = 0 THEN int(f0.do_test) ELSE int(fx),
                          ret |-> <<>>]]
              /\ pt = PtOff
         ELSE /\ dt = <<>>
              /\ pt = [PtOff EXCEPT !.pc = "start"]
    /\ dbc = <<>>
    /\ TrainIdle
    /\ BatchIdle
    /\ ReadIdle
    /\ SampleIdle

\* get_train_val_test_data lines 654-672: rank 0 builds the loaders and reads
\* the tokenizer; the other ranks prepare a buffer of zeros (line 682).
DataStart(r) ==
    /\ dcfg.prog = "get_train_val_test_data"
    /\ r \in DataRanks
    /\ dt[r].pc = "start"
    /\ dt' = [dt EXCEPT ![r] =
                IF r = 0
                  THEN [@ EXCEPT !.train_data = "loader", !.val_data = "loader",
                                 !.test_data = "loader",
                                 !.before = dcfg.num_tokens,
                                 !.after = dcfg.num_tokens,
                                 !.multiple = dcfg.make_vocab_size_divisible_by
                                                * dcfg.world_size,
                                 !.pc = "pad"]
                  ELSE [@ EXCEPT !.token_counts = <<0, 0, 0, 0, 0>>,
                                 !.pc = "broadcast"]]
    /\ UNCHANGED <<dcfg, dbc, pt>>
    /\ UNCHANGED notDataVars

\* Lines 673-680 on rank 0: one turn of the padding loop, or its exit and the
\* tensor to broadcast.
DataPad ==
    /\ dcfg.prog = "get_train_val_test_data"
    /\ dt[0].pc = "pad"
    /\ dt' = [dt EXCEPT ![0] =
                IF pad_more(dt[0].after, dt[0].multiple)
                  THEN [@ EXCEPT !.after = @ + 1]
                  ELSE [@ EXCEPT !.token_counts =
                                    <<dt[0].after, dcfg.eod_token, dt[0].do_train,
                                      dt[0].do_valid, dt[0].do_test>>,
                                 !.pc = "broadcast"]]
    /\ UNCHANGED <<dcfg, dbc, pt>>
    /\ UNCHANGED notDataVars

\* Lines 684-694: the broadcast from the source rank, and the return.
DataBroadcast(r) ==
    /\ dcfg.prog = "get_train_val_test_data"
    /\ r \in DataRanks
    /\ dt[r].pc = "broadcast"
    /\ IF r = SrcRank THEN Len(dbc) = 0 ELSE Len(dbc) >= 1
    /\ LET token_counts == IF r = SrcRank THEN dt[r].token_counts
                           ELSE broadcast_recv(dt[r].token_counts, dbc[1])
       IN  /\ dbc' = IF r = SrcRank THEN Append(dbc, token_counts) ELSE dbc
           /\ dt' = [dt EXCEPT ![r] = [@ EXCEPT
                       !.token_counts = token_counts,
                       !.do_train = token_counts[3],
                       !.do_valid = token_counts[4],
                       !.do_test = token_counts[5],
                       !.ret = <<[train_data |-> dt[r].train_data,
                                  val_data |-> dt[r].val_data,
                                  test_data |-> dt[r].test_data,
                                  num_tokens |-> token_counts[1],
                                  eod_token |-> token_counts[2]]>>,
                       !.pc = "returned"]]
    /\ UNCHANGED <<dcfg, pt>>
    /\ UNCHANGED notDataVars

\* prepare_tokenizer lines 379-384: the tokenizer is made and the loop set up.
TokenizerStart ==
    /\ dcfg.prog = "prepare_tokenizer"
    /\ pt.pc = "start"
    /\ pt' = [pt EXCEPT !.before = dcfg.num_tokens, !.after = dcfg.num_tokens,
                        !.multiple = dcfg.make_vocab_size_divisible_by,
                        !.pc = "pad"]
    /\ UNCHANGED <<dcfg, dt, dbc>>
    /\ UNCHANGED notDataVars

\* prepare_tokenizer lines 385-402: one turn of the padding loop, or its exit.
TokenizerPad ==
    /\ dcfg.prog = "prepare_tokenizer"
    /\ pt.pc = "pad"
    /\ pt' = IF pad_more(pt.after, pt.multiple)
               THEN [pt EXCEPT !.after = @ + 1]
               ELSE [pt EXCEPT !.tokenizer_num_tokens = pt.after,
                               !.eod_token = dcfg.eod_token,
                               !.vocab_size = pt.after,
                               !.pc = "returned"]
    /\ UNCHANGED <<dcfg, dt, dbc>>
    /\ UNCHANGED notDataVars

DataNext ==
    \/ \E r \in Ranks : DataStart(r)
    \/ DataPad
    \/ \E r \in Ranks : DataBroadcast(r)
    \/ TokenizerStart
    \/ TokenizerPad

SpecData == DataInit /\ [][DataNext]_vars

\* Every rank is a running process: a step that can be taken is taken.
FairSpecData == DataInit /\ [][DataNext]_vars /\ WF_vars(DataNext)

\* =========================================================================
\* Transformer-XL/generate_samples.py: sample_sequence
\*
\* mems is 0 for the empty list, -1 for a list handed in by the caller and k
\* for the list the k-th model call returned.
\* =========================================================================

\* torch.cat((tokens, prev.view(1, 1)), dim=1) on a (1, n) tensor.
cat_token(tokens, prev) ==
    LET n == seq_length_of(tokens)
    IN  [b \in {0} |-> [i \in 0..n |-> IF i < n THEN tokens[0][i] ELSE prev]]

\* The later calls given the position after the token's own: index, not index - 1.
later_call_inputs_next_position(tokens, index, mem_length) ==
    [tokens |-> [b \in {0} |-> [i \in {0} |-> tokens[0][index - 1]]],
     position_ids |-> [b \in {0} |-> [i \in {0} |-> index]],
     attention_mask |-> [b \in {0} |-> [h \in {0} |-> [q \in {0} |->
                            [k \in 0..mem_length |-> 1]]]]]

\* Lines 268-271: what the model is called with when counter > 0:
\* tokens[:, index - 1: index], new_ones((1, 1)) * (index - 1) and
\* new_ones(1, 1, 1, args.mem_length + 1).
later_call_inputs(tokens, index, mem_length) ==
    [tokens |-> [b \in {0} |-> [i \in {0} |-> tokens[0][index - 1]]],
     position_ids |-> [b \in {0} |-> [i \in {0} |-> index - 1]],
     attention_mask |-> [b \in {0} |-> [h \in {0} |-> [q \in {0} |->
                            [k \in 0..mem_length |-> 1]]]]]

\* sample_sequence is entered with a context of 1..MaxSeq tokens, whose length
\* is the context_length read_context returned with it, with mems None (<<>>)
\* or a list of the caller, and with end_token None (<<>>) or a token.
SampleInit ==
    /\ ss_args \in [out_seq_length : 0..MaxOut, mem_length : 0..MaxMem,
                    eod_token : Vocab, transformer_xl : BOOLEAN]
    /\ \E n \in 1..MaxSeq :
         \E context_tokens_tensor \in [0..(n - 1) -> Vocab],
            mems_arg \in {<<>>, <<-1>>}, end_token_arg \in Optional(Vocab) :
           ss = [pc |-> "start",
                 context_tokens_tensor |-> context_tokens_tensor,
                 context_length |-> n,
                 mems_arg |-> mems_arg, end_token_arg |-> end_token_arg,
                 tokens |-> <<>>, attention_mask |-> <<>>, position_ids |-> <<>>,
                 counter |-> 0, mems |-> 0, end_token |-> 0,
                 org_context_length |-> 0, prevs |-> <<>>, ret |-> <<>>]
    /\ ss_calls = <<>>
    /\ TrainIdle
    /\ BatchIdle
    /\ ReadIdle
    /\ DataIdle

\* Lines 257-264: get_batch and the defaults of mems and end_token.
SampleStart ==
    /\ ss.pc = "start"
    /\ LET batch == gs_get_batch(ss.context_tokens_tensor, ss_args)
       IN  ss' = [ss EXCEPT
                    !.tokens = batch.tokens,
                    !.attention_mask = batch.attention_mask,
                    !.position_ids = batch.position_ids,
                    !.counter = 0,
                    !.mems = IF ss.mems_arg = <<>> THEN 0 ELSE ss.mems_arg[1],
                    !.end_token = IF ss.end_token_arg = <<>> THEN ss_args.eod_token
                                  ELSE ss.end_token_arg[1],
                    !.org_context_length = ss.context_length,
                    !.pc = "loop"]
    /\ UNCHANGED <<ss_args, ss_calls>>
    /\ UNCHANGED notSampleVars

\* Lines 265-283: one turn of the loop: the model call, then the sampled token
\* prev (any token of the vocabulary) ends the loop or is appended.
SampleStep ==
    /\ ss.pc = "loop"
    /\ ss.counter < ss_args.out_seq_length - ss.org_context_length
    /\ LET index == ss.org_context_length + ss.counter
           inputs == IF ss.counter = 0
                       THEN [tokens |-> ss.tokens,
                             position_ids |-> ss.position_ids,
                             attention_mask |-> ss.attention_mask]
                       ELSE later_call_inputs(ss.tokens, index, ss_args.mem_length)
           out == Len(ss_calls) + 1
       IN  /\ ss_calls' = Append(ss_calls,
                 [tokens |-> inputs.tokens, position_ids |-> inputs.position_ids,
                  attention_mask |-> inputs.attention_mask,
                  counter |-> ss.counter, in |-> ss.mems, out |-> out])
           /\ \E prev \in Vocab :
                IF prev = ss.end_token
                  THEN ss' = [ss EXCEPT !.mems = out, !.pc = "return"]
                  ELSE ss' = [ss EXCEPT !.mems = out,
                                        !.tokens = cat_token(ss.tokens, prev),
                                        !.context_length = @ + 1,
                                        !.counter = @ + 1,
                                        !.prevs = Append(@, prev)]
    /\ UNCHANGED ss_args
    /\ UNCHANGED notSampleVars

\* Lines 265 and 291-292: the loop is left and the tokens and mems returned.
SampleReturn ==
    /\ \/ ss.pc = "return"
       \/ /\ ss.pc = "loop"
          /\ ~(ss.counter < ss_args.out_seq_length - ss.org_context_length)
    /\ ss' = [ss EXCEPT !.ret = <<[output_tokens_list |-> ss.tokens[0],
                                   mems |-> ss.mems]>>,
                        !.pc = "returned"]
    /\ UNCHANGED <<ss_args, ss_calls>>
    /\ UNCHANGED notSampleVars

SampleNext ==
    \/ SampleStart
    \/ SampleStep
    \/ SampleReturn

SpecSample == SampleInit /\ [][SampleNext]_vars

\* =========================================================================
\* CogView/data_utils/datasets.py: get_dataset_by_type, and
\* ProtTrans/pretrain/tasks/protein/secondary_structure.py:
\* SecondaryStructureDataset.
\*
\* A one-dimensional numpy array or a Python list is a sequence, so index i of
\* the code is index i + 1 here; a two-dimensional array is a sequence of its
\* lines.
\* =========================================================================

\* row.flatten(): the lines of the array one after the other.
RECURSIVE flatten(_)
flatten(row) == IF row = <<>> THEN <<>> ELSE Head(row) \o flatten(Tail(row))

\* [v] * n: an empty list when n <= 0.
repeat(v, n) == [k \in 1..n |-> v]

\* Lines 67-70: ml.
max_len(a) ==
    IF a.finetune /\ a.max_position_embeddings_finetune > a.max_position_embeddings
      THEN a.max_position_embeddings_finetune
      ELSE a.max_position_embeddings

\* pad_to_len without the truncation: a long sequence is returned whole.
pad_to_len_untruncated(r, ml, pad) ==
    IF Len(r) < ml
      THEN [ret |-> r \o repeat(pad, ml - Len(r)), sep |-> Len(r)]
      ELSE [ret |-> r, sep |-> ml]

\* Lines 72-81: pad_to_len(ret) with the ml and the [PAD] id of its closure;
\* what it returns is the pair (ret, sep).
pad_to_len(r, ml, pad) ==
    IF Len(r) < ml
      THEN [ret |-> r \o repeat(pad, ml - Len(r)), sep |-> Len(r)]
      ELSE [ret |-> SubSeq(r, 1, ml), sep |-> ml]

\* Lines 85-98: process_fn of either dataset type on the sequence unpadded,
\* which is row.flatten() for a TokenizedDataset and
\* TextCodeTemplate(text, code) for a TextCodeDataset.
process_fn(unpadded, ml, pad) ==
    LET p == pad_to_len(unpadded, ml, pad)
        attention_mask_sep == p.sep
    IN  [text |-> p.ret,
         loss_mask |-> repeat(1, attention_mask_sep)
                         \o repeat(0, Len(p.ret) - attention_mask_sep)]

\* build_samples without line 27: a long label list is not cut.
build_samples_uncut(max_seq_length, ids, paddings, label, unique_id, seq_len) ==
    LET label1 == <<-1>> \o label
        padding_length == max_seq_length - Len(label1)
        label2 == IF padding_length > 0
                    THEN label1 \o repeat(-1, padding_length) ELSE label1
    IN  [text |-> ids, padding_mask |-> paddings, label |-> label2,
         uid |-> unique_id, seq_len |-> seq_len]

\* secondary_structure.py lines 17-34: build_samples.
build_samples(max_seq_length, ids, paddings, label, unique_id, seq_len) ==
    LET label1 == <<-1>> \o label
        padding_length == max_seq_length - Len(label1)
        label2 == IF padding_length > 0
                    THEN label1 \o repeat(-1, padding_length) ELSE label1
        label3 == SubSeq(label2, 1, max_seq_length)
    IN  [text |-> ids, padding_mask |-> paddings, label |-> label3,
         uid |-> unique_id, seq_len |-> seq_len]

\* secondary_structure.py lines 36-42: __getitem__ on an item, given what
\* build_tokens_paddings_from_text returned for its 'primary' text.
getitem(max_seq_length, item, built) ==
    LET seq_len == Min(built.seq_len + 1, max_seq_length)
    IN  build_samples(max_seq_length, built.ids, built.paddings, item.ss3,
                      item.uid, seq_len)

\* ---- the inputs

\* Stored rows: one or two lines of up to MaxRowCols token ids.
Rows == UNION {[1..r -> [1..c -> Vocab]] : r \in 1..2, c \in 0..MaxRowCols}

\* What TextCodeTemplate may return: any sequence of up to 2 * MaxRowCols ids.
Templated == UNION {[1..n -> Vocab] : n \in 0..(2 * MaxRowCols)}

\* The three classes of secondary structure.
Classes == {0, 1, 2}
LabelLists == UNION {[1..n -> Classes] : n \in 0..MaxLabels}

CogViewArgs ==
    [finetune : BOOLEAN, max_position_embeddings : 1..MaxPositions,
     max_position_embeddings_finetune : 1..MaxPositions]

\* The process_fn of a TokenizedDataset is applied to a stored row.
CallProcessFnTokenized ==
    /\ call.fn = "none"
    /\ \E a \in CogViewArgs, row \in Rows, pad \in {1, 2} :
         /\ call' = [fn |-> "process_fn", dataset_type |-> "TokenizedDataset",
                     args |-> a, unpadded |-> flatten(row), pad |-> pad]
         /\ ret' = process_fn(flatten(row), max_len(a), pad)
    /\ UNCHANGED notBatchVars

\* The process_fn of a TextCodeDataset is applied to a stored row, for which
\* TextCodeTemplate returned the sequence templated.
CallProcessFnTextCode ==
    /\ call.fn = "none"
    /\ \E a \in CogViewArgs, templated \in Templated, pad \in {1, 2} :
         /\ call' = [fn |-> "process_fn", dataset_type |-> "TextCodeDataset",
                     args |-> a, unpadded |-> templated, pad |-> pad]
         /\ ret' = process_fn(templated, max_len(a), pad)
    /\ UNCHANGED notBatchVars

\* SecondaryStructureDataset.__getitem__ on one item.
CallGetItem ==
    /\ call.fn = "none"
    /\ \E max_seq_length \in 1..MaxSeqLength, ss3 \in LabelLists, uid \in {0, 1},
          tokenized \in 0..MaxLabels, id \in {1, 2} :
         LET item == [ss3 |-> ss3, uid |-> uid]
             built == [ids |-> repeat(id, max_seq_length),
                       paddings |-> repeat(0, max_seq_length),
                       seq_len |-> tokenized]
         IN  /\ call' = [fn |-> "getitem", max_seq_length |-> max_seq_length,
                         item |-> item, built |-> built]
             /\ ret' = getitem(max_seq_length, item, built)
    /\ UNCHANGED notBatchVars

DatasetNext ==
    \/ CallProcessFnTokenized
    \/ CallProcessFnTextCode
    \/ CallGetItem

SpecDataset == BatchInit /\ [][DatasetNext]_vars

\* =========================================================================
\* Claims about the training loop
\* =========================================================================

\* The train forward calls made before call k.
TrainCallsBefore(k) == {j \in 1..(k - 1) : calls[j].who = "train"}

\* The largest element of a non-empty set of integers.
SetMax(S) == CHOOSE x \in S : \A y \in S : y <= x

\* How often op occurs in the sequence s.
Count(s, op) == Cardinality({k \in 1..Len(s) : s[k] = op})

\* C1 as stated: every training forward call receives the mems returned by the
\* forward call made immediately before it, whoever made that call, and the
\* first forward call receives the empty list.
C1_MemsFromImmediatelyPrecedingCall ==
    \A k \in 1..Len(calls) :
        calls[k].who = "train" =>
            calls[k].in = (IF k = 1 THEN 0 ELSE calls[k - 1].out)

\* C1 (amended): every training forward call receives the mems returned by the
\* most recent earlier TRAINING forward call of the run (micro-steps of one
\* train_step included), the first one receives the empty list; the forward
\* calls of an in-loop evaluation run on their own mems, starting from the empty
\* list, and are not part of that chain.
C1_MemsFromPrecedingTrainCall ==
    \A k \in 1..Len(calls) :
        /\ calls[k].who = "train" =>
             calls[k].in = (IF TrainCallsBefore(k) = {} THEN 0
                            ELSE calls[SetMax(TrainCallsBefore(k))].out)
        /\ calls[k].who = "eval" =>
             calls[k].in = (IF calls[k].n = 1 THEN 0 ELSE calls[k - 1].out)

\* C1 witness: a training forward call that follows an evaluation forward call
\* and was given the mems of the training call before the evaluation.
C1_Witness ==
    \E k \in 3..Len(calls) :
        /\ calls[k].who = "train"
        /\ calls[k - 1].who = "eval"
        /\ calls[k].in # 0
        /\ calls[k].in # calls[k - 1].out

C3_SchedulerStepsOrSkips ==
    /\ (pc = "post" /\ ~args.deepspeed) =>
          /\ Count(ops, "optimizer.step") = 1
          /\ Count(ops, "lr_scheduler.step") =
                (IF ~(args.fp16 /\ overflow) THEN 1 ELSE 0)
          /\ skipped_iter = (IF args.fp16 /\ overflow THEN 1 ELSE 0)
    /\ pc # "post" => hist.lr_steps + skipped_iters = hist.completed

\* C3 witness: two steps completed without DeepSpeed, one skipped and one not.
C3_Witness ==
    /\ ~args.deepspeed
    /\ pc = "loop"
    /\ hist.completed = 2
    /\ skipped_iters = 1
    /\ hist.lr_steps = 1

\* The iterations of this run at which a checkpoint is due.
SaveIterations ==
    {i \in (hist.iteration0 + 1)..args.iteration :
        args.save /\ args.save_interval # 0 /\ i % args.save_interval = 0}

\* C4: train saves a checkpoint after a step exactly when args.save and
\* args.save_interval are set and the incremented iteration is a multiple of
\* save_interval, tagged with that iteration; it saves at no other iteration.
C4_CheckpointExactlyAtInterval ==
    pc # "post" =>
        /\ Len(saved) = Cardinality(SaveIterations)
        /\ \A k \in 1..Len(saved) : saved[k] \in SaveIterations
        /\ \A k \in 1..(Len(saved) - 1) : saved[k] < saved[k + 1]

\* C4 witness: a run with save_interval 2 that saved once and also completed a
\* step without saving.
C4_Witness ==
    /\ args.save /\ args.save_interval = 2
    /\ Len(saved) = 1
    /\ hist.completed >= 2
    /\ pc = "loop"

\* =========================================================================
\* Claims about get_batch and get_masks_and_position_ids
\* =========================================================================

\* A non-XL call of pretrain's get_batch has returned.
GetBatchNonXL == call.fn = "get_batch" /\ ~call.args.xl_dataset

\* What every reading of C5 agrees on: tokens are the first L elements of the
\* text row, labels the last L, and all three results have length L.
C5_TokensAndLabels ==
    LET L == seq_length_of(call.data_b.text) - 1
    IN  \A b \in DOMAIN call.data_b.text :
          /\ DOMAIN ret.tokens[b] = 0..(L - 1)
          /\ DOMAIN ret.labels[b] = 0..(L - 1)
          /\ DOMAIN ret.loss_mask[b] = 0..(L - 1)
          /\ \A i \in 0..(L - 1) :
               /\ ret.tokens[b][i] = call.data_b.text[b][i]
               /\ ret.labels[b][i] = call.data_b.text[b][i + 1]

\* C5 as stated: besides the tokens and labels, the loss mask get_batch returns
\* is the broadcast loss mask with its first element dropped.
C5_LossMaskIsShiftedMask ==
    GetBatchNonXL =>
        /\ C5_TokensAndLabels
        /\ \A b \in DOMAIN ret.loss_mask : \A i \in DOMAIN ret.loss_mask[b] :
             ret.loss_mask[b][i] = call.data_b.loss_mask[b][i + 1]

\* C5 (amended): tokens are the first L elements of the row, labels the last L
\* (labels[i] is the token following tokens[i]), all of length L, and the loss
\* mask is the broadcast loss mask with its first element dropped AND set to 0
\* at every position whose token is the EOD token.
C5_LossMaskIsShiftedMaskZeroedAtEod ==
    GetBatchNonXL =>
        /\ C5_TokensAndLabels
        /\ \A b \in DOMAIN ret.loss_mask : \A i \in DOMAIN ret.loss_mask[b] :
             ret.loss_mask[b][i] =
                (IF ret.tokens[b][i] = call.args.eod_token THEN 0
                 ELSE call.data_b.loss_mask[b][i + 1])

\* C5 witness: a row of three tokens or more with an EOD token whose shifted
\* loss mask is 1, and a non-EOD token whose loss mask is kept.
C5_Witness ==
    /\ GetBatchNonXL
    /\ seq_length_of(call.data_b.text) >= 3
    /\ \E b \in DOMAIN ret.tokens : \E i, k \in DOMAIN ret.tokens[b] :
         /\ ret.tokens[b][i] = call.args.eod_token
         /\ call.data_b.loss_mask[b][i + 1] = 1
         /\ ret.loss_mask[b][i] = 0
         /\ ret.tokens[b][k] # call.args.eod_token
         /\ ret.loss_mask[b][k] = 1
         /\ ret.labels[b][k] # ret.tokens[b][k]

\* The call is one the lower-triangular claim covers: non-XL, reset_attention_mask
\* off, no attention mask supplied; n is its seq_length.
C6_Case ==
    \/ /\ call.fn = "get_masks_and_position_ids"
       /\ ~call.transformer_xl /\ ~call.reset_attention_mask
       /\ call.attention_mask = <<>>
    \/ /\ call.fn = "get_batch"
       /\ ~call.args.xl_dataset /\ ~call.args.reset_attention_mask
    \/ /\ call.fn = "gs_get_batch"
       /\ ~call.args.transformer_xl

C6_SeqLength ==
    IF call.fn = "get_masks_and_position_ids" THEN seq_length_of(call.data)
    ELSE seq_length_of(ret.tokens)

\* C6: non-XL, reset_attention_mask off, no mask supplied: the attention mask
\* has batch dimension 1 and lets query i attend key j iff j <= i.
C6_LowerTriangularMask ==
    C6_Case =>
        /\ DOMAIN ret.attention_mask = {0}
        /\ DOMAIN ret.attention_mask[0] = {0}
        /\ DOMAIN ret.attention_mask[0][0] = 0..(C6_SeqLength - 1)
        /\ \A i \in 0..(C6_SeqLength - 1) :
             /\ DOMAIN ret.attention_mask[0][0][i] = 0..(C6_SeqLength - 1)
             /\ \A j \in 0..(C6_SeqLength - 1) :
                  (ret.attention_mask[0][0][i][j] # 0) <=> (j <= i)

\* C6 witness: two rows of three tokens share one 3 x 3 mask.
C6_Witness ==
    /\ C6_Case
    /\ call.fn = "get_masks_and_position_ids"
    /\ batch_size_of(call.data) = 2
    /\ seq_length_of(call.data) = 3
    /\ ret.attention_mask[0][0][2][1] = 1
    /\ ret.attention_mask[0][0][1][2] = 0

\* A Transformer-XL call: its arguments, whichever function made it.
XLCall ==
    \/ call.fn = "get_masks_and_position_ids" /\ call.transformer_xl
    \/ call.fn = "get_batch" /\ call.args.xl_dataset
    \/ call.fn = "gs_get_batch" /\ call.args.transformer_xl

XLSeq ==
    IF call.fn = "get_masks_and_position_ids" THEN seq_length_of(call.data)
    ELSE seq_length_of(ret.tokens)

XLMem ==
    IF call.fn = "get_masks_and_position_ids" THEN call.mem_length
    ELSE call.args.mem_length

\* The attention mask the caller supplied, <<>> if none.
XLSupplied ==
    IF call.fn = "get_masks_and_position_ids" THEN call.attention_mask
    ELSE IF call.fn = "get_batch" THEN <<call.data_b.attention_mask>>
    ELSE <<>>

\* Key j is inside the band of query i.
InBand(i, j) == i + 1 - XLSeq + XLMem <= j /\ j <= i + XLMem

\* C7 as stated: in Transformer-XL mode query i may attend key j iff
\* i + 1 - seq_length + mem_length <= j <= i + mem_length.
C7_BandMask ==
    XLCall =>
        \A i \in 0..(XLSeq - 1) : \A j \in 0..(XLSeq + XLMem - 1) :
            (ret.attention_mask[0][0][i][j] # 0) <=> InBand(i, j)

\* C7 (amended): in Transformer-XL mode, when no attention mask is supplied the
\* mask has seq_length queries and seq_length + mem_length keys and query i may
\* attend key j iff i + 1 - seq_length + mem_length <= j <= i + mem_length, so
\* that with mem_length >= seq_length - 1 every query attends exactly seq_length
\* keys; when the caller supplies a mask (as get_batch does for an XL dataset)
\* the result is the supplied mask inside that band and 0 outside it. In both
\* cases no query attends a key beyond its own position mem_length + i.
C7_BandOfSuppliedMask ==
    XLCall =>
        /\ DOMAIN ret.attention_mask = {0}
        /\ DOMAIN ret.attention_mask[0] = {0}
        /\ DOMAIN ret.attention_mask[0][0] = 0..(XLSeq - 1)
        /\ \A i \in 0..(XLSeq - 1) :
             /\ DOMAIN ret.attention_mask[0][0][i] = 0..(XLSeq + XLMem - 1)
             /\ \A j \in 0..(XLSeq + XLMem - 1) :
                  /\ ret.attention_mask[0][0][i][j] =
                        (IF ~InBand(i, j) THEN 0
                         ELSE IF XLSupplied = <<>> THEN 1
                         ELSE XLSupplied[1][0][i][j])
                  /\ j > i + XLMem => ret.attention_mask[0][0][i][j] = 0
             /\ (XLSupplied = <<>> /\ XLMem >= XLSeq - 1) =>
                  Cardinality({j \in 0..(XLSeq + XLMem - 1) :
                                 ret.attention_mask[0][0][i][j] # 0}) = XLSeq

\* C7 witness: a supplied mask with a zero inside the band of a query, with
\* three queries and memory, so the result has a zero inside the band.
C7_Witness ==
    /\ XLCall
    /\ XLSupplied # <<>>
    /\ XLSeq = 3 /\ XLMem = 2
    /\ \E i \in 0..(XLSeq - 1) : \E j \in 0..(XLSeq + XLMem - 1) :
         InBand(i, j) /\ ret.attention_mask[0][0][i][j] = 0

\* C7 witness of the unsupplied case: three queries, memory of two, each query
\* attending exactly three keys.
C7_WitnessNoMask ==
    /\ XLCall
    /\ XLSupplied = <<>>
    /\ XLSeq = 3 /\ XLMem = 2
    /\ ret.attention_mask[0][0][0][2] = 1
    /\ ret.attention_mask[0][0][0][3] = 0

\* =========================================================================
\* Claims about read_context
\* =========================================================================

\* The last message rank 0 printed.
LastMessage == console[Len(console)]

\* C8: on rank 0 read_context accepts a prompt only if it is non-empty, is not
\* "stop" and tokenizes to fewer than args.seq_length tokens; an empty or
\* too-long prompt is rejected with a message and the user is prompted again
\* with no broadcast made; "stop" makes it return terminate_runs = 1 and no
\* text, tokens or length.
C8_PromptAcceptance ==
    rc # <<>> =>
      LET z == rc[0]
          prompting == z.pc \in {"start", "prompt"}
      IN  /\ prompting => rbc = <<>>
          /\ (z.pc = "prompt" /\ (console # <<>> \/ output > 0)) =>
                \/ /\ z.raw_text = <<>>
                   /\ LastMessage = "Prompt should not be empty!"
                \/ /\ z.raw_text # <<>> /\ z.raw_text # <<"stop">>
                   /\ Len(EncodeAsIds(z.raw_text)) >= gs_args.seq_length
                   /\ LastMessage =
                        "Please give smaller context than the window length!"
          /\ (~prompting /\ z.terminate_runs = 0) =>
                /\ z.raw_text # <<>>
                /\ z.raw_text # <<"stop">>
                /\ Len(EncodeAsIds(z.raw_text)) < gs_args.seq_length
          /\ (~prompting /\ z.terminate_runs = 1) => z.raw_text = <<"stop">>
          /\ (z.pc = "returned" /\ z.raw_text = <<"stop">>) =>
                z.ret = <<[terminate_runs |-> 1, raw_text |-> "None",
                           context_tokens_tensor |-> "None",
                           context_length |-> "None"]>>

\* C8 witness: rank 0 rejected an empty and a too-long prompt, then accepted a
\* prompt of two tokens and returned it.
C8_Witness ==
    /\ rc # <<>>
    /\ rc[0].pc = "returned"
    /\ rc[0].terminate_runs = 0
    /\ Len(rc[0].ret[1].context_tokens_tensor) = 2
    /\ console = <<"Prompt should not be empty!",
                   "Please give smaller context than the window length!">>

\* C8 witness of the other outcome: "stop" after a rejection.
C8_WitnessStop ==
    /\ rc # <<>>
    /\ rc[0].pc = "returned"
    /\ rc[0].terminate_runs = 1
    /\ Len(console) = 1

\* =========================================================================
\* Claims about the vocabulary padding and its broadcast
\* =========================================================================

\* C9: only model-parallel rank 0 builds the data loaders (the others return
\* None three times), and every rank that has returned has the padded
\* vocabulary size and end-of-document token of the source rank, and its
\* do_train, do_valid and do_test flags.
C9_RanksAgreeAfterBroadcast ==
    dcfg.prog = "get_train_val_test_data" =>
      \A r \in DataRanks :
        /\ r # 0 => /\ dt[r].train_data = "None"
                    /\ dt[r].val_data = "None"
                    /\ dt[r].test_data = "None"
        /\ dt[r].pc = "returned" =>
             /\ dt[SrcRank].pc = "returned"
             /\ dt[r].ret[1].num_tokens = dt[SrcRank].ret[1].num_tokens
             /\ dt[r].ret[1].num_tokens = dt[SrcRank].after
             /\ dt[r].ret[1].eod_token = dcfg.eod_token
             /\ dt[r].do_train = dt[SrcRank].do_train
             /\ dt[r].do_valid = dt[SrcRank].do_valid
             /\ dt[r].do_test = dt[SrcRank].do_test
             /\ r # 0 => /\ dt[r].ret[1].train_data = "None"
                         /\ dt[r].ret[1].val_data = "None"
                         /\ dt[r].ret[1].test_data = "None"
             /\ r = 0 => dt[r].ret[1].train_data = "loader"

\* C9 witness: a second rank, whose flags were all off, has returned a padded
\* size with dummy tokens added and rank 0's flags, one of them on.
C9_Witness ==
    /\ dcfg.prog = "get_train_val_test_data"
    /\ dcfg.world_size >= 2
    /\ dt[1].pc = "returned"
    /\ dt[1].ret[1].num_tokens > dcfg.num_tokens
    /\ dt[1].ret[1].eod_token = 1
    /\ dt[1].do_train = 1 /\ dt[1].do_valid = 0

\* The padding loop that runs: its locals, and the multiple the claim names.
PadState == IF dcfg.prog = "prepare_tokenizer" THEN pt ELSE dt[0]
PadMultiple ==
    IF dcfg.prog = "prepare_tokenizer" THEN dcfg.make_vocab_size_divisible_by
    ELSE dcfg.make_vocab_size_divisible_by * dcfg.world_size

\* C10: for every positive multiple the padding loop terminates, and what it
\* yields is the smallest integer >= num_tokens divisible by the multiple
\* (make_vocab_size_divisible_by times the model-parallel world size in
\* pretraining, make_vocab_size_divisible_by alone in generation): fewer than
\* `multiple` dummy tokens are added and a divisible size is left unchanged.
C10_PaddingIsLeastMultiple ==
    /\ [](PadState.pc \in {"broadcast", "returned"} =>
            /\ PadState.multiple = PadMultiple
            /\ PadState.before = dcfg.num_tokens
            /\ PadState.after >= dcfg.num_tokens
            /\ PadState.after % PadMultiple = 0
            /\ \A v \in dcfg.num_tokens..(PadState.after - 1) : v % PadMultiple # 0
            /\ PadState.after - PadState.before < PadMultiple
            /\ dcfg.num_tokens % PadMultiple = 0 => PadState.after = dcfg.num_tokens)
    /\ [](PadState.pc = "returned" =>
            IF dcfg.prog = "prepare_tokenizer"
              THEN pt.vocab_size = pt.after /\ pt.tokenizer_num_tokens = pt.after
              ELSE dt[0].ret[1].num_tokens = dt[0].after)
    /\ <>(PadState.pc = "returned")

\* C10 witness: generation padded a size that was not divisible, by two or
\* more dummy tokens.
C10_Witness ==
    /\ dcfg.prog = "prepare_tokenizer"
    /\ pt.pc = "returned"
    /\ pt.vocab_size >= pt.before + 2
    /\ pt.multiple >= 3

\* C10 witness in pretraining: the multiple is the option times a world size
\* of two, and dummy tokens were added.
C10_WitnessPretrain ==
    /\ dcfg.prog = "get_train_val_test_data"
    /\ dcfg.world_size = 2
    /\ dt[0].pc = "returned"
    /\ dt[0].after > dt[0].before
    /\ dcfg.num_tokens % dcfg.make_vocab_size_divisible_by = 0

\* =========================================================================
\* Claims about evaluation inside the training loop and the order of a step
\* =========================================================================

\* The evaluate calls made so far: the eval forward calls numbered 1.
EvaluateCalls ==
    Cardinality({k \in 1..Len(calls) : calls[k].who = "eval" /\ calls[k].n = 1})

\* C11: evaluate puts the model in evaluation mode, runs exactly
\* args.eval_iters forward steps and no backward or optimizer step, and puts the
\* model back in training mode before returning; so every train_step of train,
\* those after an in-loop evaluation included, runs in training mode.
C11_EvaluateRestoresTrainingMode ==
    /\ [](pc = "evaluate" => ~training /\ ev.iteration <= args.eval_iters)
    /\ [][pc = "evaluate" =>
            /\ ops' = ops
            /\ ds' = ds
            /\ hist'.lr_steps = hist.lr_steps
            /\ pc' = "exitcheck" =>
                 /\ training'
                 /\ ev.iteration = args.eval_iters
                 /\ calls' = calls]_vars
    /\ [](pc \in {"loop", "exitcheck", "exited", "done"} =>
            hist.eval_forwards = EvaluateCalls * args.eval_iters)
    /\ [](pc \in {"forward", "backward", "update", "post"} => training)

\* C11 witness: a train_step is running after an in-loop evaluation of two
\* forward steps, in a run that was entered with the model in evaluation mode.
C11_Witness ==
    /\ pc = "update"
    /\ args.eval_iters = 2
    /\ hist.eval_forwards = 2
    /\ Len(calls) = 4
    /\ calls[2].who = "eval" /\ calls[3].who = "eval" /\ calls[4].who = "train"
    /\ training

\* The index in ops of the one occurrence of op.
Pos(op) == CHOOSE k \in 1..Len(ops) : ops[k] = op

\* C12: in a non-DeepSpeed training step the operations occur in this order:
\* forward pass, zero_grad, backward pass, all-reduce of the loss followed by
\* the division by world_size, update of the fp16 master gradients (only when
\* fp16), gradient clipping (only when clip_grad > 0), and only then
\* optimizer.step; clipping never precedes the master-gradient update and
\* optimizer.step never precedes clipping.
C12_StepOrder ==
    ~args.deepspeed =>
      /\ \A i, j \in 1..Len(ops) :
           /\ (ops[i] = "clip_grad" /\ ops[j] = "update_master_grads") => j < i
           /\ (ops[i] = "optimizer.step" /\ ops[j] = "clip_grad") => j < i
           /\ (ops[i] = "optimizer.step" /\ ops[j] = "update_master_grads") => j < i
      /\ pc = "post" =>
           /\ \A op \in {"forward", "zero_grad", "backward", "all_reduce",
                         "div_world_size", "optimizer.step"} : Count(ops, op) = 1
           /\ Count(ops, "update_master_grads") = (IF args.fp16 THEN 1 ELSE 0)
           /\ Count(ops, "clip_grad") = (IF args.clip_grad > 0 THEN 1 ELSE 0)
           /\ Pos("forward") = 1
           /\ Pos("zero_grad") = 2
           /\ Pos("backward") = 3
           /\ Pos("all_reduce") = 4
           /\ Pos("div_world_size") = 5
           /\ args.fp16 => Pos("update_master_grads") = 6
           /\ args.clip_grad > 0 => Pos("clip_grad") = (IF args.fp16 THEN 7 ELSE 6)
           /\ Pos("optimizer.step") =
                5 + (IF args.fp16 THEN 1 ELSE 0) + (IF args.clip_grad > 0 THEN 1 ELSE 0) + 1
           /\ \A k \in 1..Len(ops) :
                k > Pos("optimizer.step") => ops[k] = "lr_scheduler.step"

\* C12 witness: a non-DeepSpeed fp16 step with clipping has made its
\* optimizer.step.
C12_Witness ==
    /\ pc = "post"
    /\ ~args.deepspeed /\ args.fp16 /\ args.clip_grad > 0
    /\ Count(ops, "update_master_grads") = 1
    /\ Count(ops, "clip_grad") = 1
    /\ Count(ops, "optimizer.step") = 1

\* =========================================================================
\* Claims about the EOD resets of get_masks_and_position_ids
\* =========================================================================

\* A direct call of get_masks_and_position_ids, of either file, has returned.
DirectCall ==
    call.fn \in {"get_masks_and_position_ids", "gs_get_masks_and_position_ids"}

\* A non-XL call has returned: its tokens, EOD token, reset flags and the masks
\* the caller supplied (<<>> if none), whichever function made the call.
NonXLCall ==
    \/ DirectCall /\ ~call.transformer_xl
    \/ call.fn = "get_batch" /\ ~call.args.xl_dataset
    \/ call.fn = "gs_get_batch" /\ ~call.args.transformer_xl

CallData == IF DirectCall THEN call.data ELSE ret.tokens

CallEod ==
    IF DirectCall THEN call.eod_token
    ELSE call.args.eod_token

CallResetAttentionMask ==
    IF DirectCall THEN call.reset_attention_mask
    ELSE IF call.fn = "get_batch" THEN call.args.reset_attention_mask
    ELSE FALSE

CallResetPositionIds ==
    IF DirectCall THEN call.reset_position_ids
    ELSE IF call.fn = "get_batch" THEN call.args.reset_position_ids
    ELSE FALSE

CallAttentionMask ==
    IF DirectCall THEN call.attention_mask ELSE <<>>

\* In row b, query i may see key j: j <= i and no EOD token at a k, j <= k < i.
SameDocument(b, i, j) ==
    /\ j <= i
    /\ \A k \in j..(i - 1) : CallData[b][k] # CallEod

C13_WitnessSupplied ==
    /\ NonXLCall /\ CallResetAttentionMask
    /\ CallAttentionMask # <<>>
    /\ \E b \in DOMAIN CallData : \E i, j \in DOMAIN CallData[b] :
         SameDocument(b, i, j) /\ ret.attention_mask[b][0][i][j] = 0

\* The EOD indices of row b strictly before index k.
EodBefore(b, k) == {e \in DOMAIN CallData[b] : e < k /\ CallData[b][e] = CallEod}

\* C14: in non-XL mode with reset_position_ids on, the position id of the token
\* at index k of a row is k minus (index of the last EOD token strictly before
\* k) minus 1, or k if no EOD precedes it: position ids restart at 0 right after
\* every EOD token, the EOD token keeps the position of its own document, and
\* all position ids are non-negative. With reset_position_ids off, position ids
\* are 0..seq_length-1 in every row.
C14_PositionIds ==
    NonXLCall =>
      /\ DOMAIN ret.position_ids = DOMAIN CallData
      /\ \A b \in DOMAIN CallData :
           /\ DOMAIN ret.position_ids[b] = DOMAIN CallData[b]
           /\ \A k \in DOMAIN CallData[b] :
                IF CallResetPositionIds
                  THEN /\ ret.position_ids[b][k] =
                            (IF EodBefore(b, k) = {} THEN k
                             ELSE k - SetMax(EodBefore(b, k)) - 1)
                       /\ ret.position_ids[b][k] >= 0
                       /\ (k > 0 /\ CallData[b][k - 1] = CallEod) =>
                            ret.position_ids[b][k] = 0
                       /\ (k > 0 /\ CallData[b][k - 1] # CallEod) =>
                            ret.position_ids[b][k] = ret.position_ids[b][k - 1] + 1
                  ELSE ret.position_ids[b][k] = k

\* C14 witness: the generate_samples copy on a row EOD, token, EOD: the
\* positions are 0, 0, 1.
C14_Witness ==
    /\ call.fn = "gs_get_masks_and_position_ids"
    /\ ~call.transformer_xl /\ call.reset_position_ids
    /\ seq_length_of(call.data) = 3
    /\ call.data[0][0] = call.eod_token
    /\ call.data[0][1] # call.eod_token
    /\ call.data[0][2] = call.eod_token
    /\ ret.position_ids[0] = [k \in 0..2 |-> IF k = 2 THEN 1 ELSE 0]

\* C14 witness in pretraining: get_batch on a row with two EOD tokens in a row
\* followed by a token, with reset_position_ids on.
C14_WitnessPretrain ==
    /\ call.fn = "get_batch" /\ ~call.args.xl_dataset
    /\ call.args.reset_position_ids
    /\ batch_size_of(ret.tokens) = 2
    /\ seq_length_of(ret.tokens) = 3
    /\ ret.tokens[0][0] = CallEod /\ ret.tokens[0][1] = CallEod
    /\ ret.position_ids[0] = [k \in 0..2 |-> 0]
    /\ ret.position_ids[1] = [k \in 0..2 |-> k]

\* A call that returns a loss mask has returned; the loss mask handed to
\* get_masks_and_position_ids (<<>> if none) and the mode of the call.
LossMaskCall == DirectCall \/ call.fn = "get_batch"

CallXL == IF DirectCall THEN call.transformer_xl ELSE call.args.xl_dataset

CallLossMask ==
    IF DirectCall THEN call.loss_mask
    ELSE IF call.args.xl_dataset THEN <<call.data_b.loss_mask>>
    ELSE <<drop_first(call.data_b.loss_mask)>>

\* C15: in non-XL mode the loss mask returned by get_masks_and_position_ids is
\* 0 at every position whose input token equals the EOD token and equals the
\* supplied loss mask everywhere else (all ones when none is supplied); in
\* Transformer-XL mode the supplied loss mask is returned unchanged, EOD
\* positions included.
C15_LossMask ==
    LossMaskCall =>
      /\ DOMAIN ret.loss_mask = DOMAIN CallData
      /\ \A b \in DOMAIN CallData :
           /\ DOMAIN ret.loss_mask[b] = DOMAIN CallData[b]
           /\ \A i \in DOMAIN CallData[b] :
                ret.loss_mask[b][i] =
                   (IF ~CallXL /\ CallData[b][i] = CallEod THEN 0
                    ELSE IF CallLossMask = <<>> THEN 1
                    ELSE CallLossMask[1][b][i])
      /\ (CallXL /\ CallLossMask # <<>>) => ret.loss_mask = CallLossMask[1]

\* C15 witness: a non-XL call of pretraining's function with a supplied loss
\* mask of ones on a row holding an EOD token and another token.
C15_Witness ==
    /\ call.fn = "get_masks_and_position_ids" /\ ~call.transformer_xl
    /\ call.loss_mask # <<>>
    /\ \E b \in DOMAIN call.data : \E i, k \in DOMAIN call.data[b] :
         /\ call.data[b][i] = call.eod_token
         /\ call.loss_mask[1][b][i] = 1
         /\ ret.loss_mask[b][i] = 0
         /\ call.data[b][k] # call.eod_token
         /\ ret.loss_mask[b][k] = 1

\* C15 witness in Transformer-XL mode: the supplied loss mask is 1 at an EOD
\* token and so is the returned one.
C15_WitnessXL ==
    /\ LossMaskCall /\ CallXL
    /\ CallLossMask # <<>>
    /\ \E b \in DOMAIN CallData : \E i \in DOMAIN CallData[b] :
         /\ CallData[b][i] = CallEod
         /\ ret.loss_mask[b][i] = 1

\* =========================================================================
\* Claims about sample_sequence
\* =========================================================================

\* C16: the first model call receives the whole context with the mems given by
\* the caller (empty by default); every later call receives exactly one token,
\* the token appended in the previous loop iteration, with a position id equal
\* to that token's index in the full sequence (context length + counter - 1),
\* an all-ones mask of width mem_length + 1, and the mems returned by the
\* previous call.
C16_SampleCalls ==
    \A k \in 1..Len(ss_calls) :
      LET c == ss_calls[k]
          n == ss.org_context_length
      IN  IF k = 1
            THEN /\ c.tokens = [b \in {0} |-> ss.context_tokens_tensor]
                 /\ seq_length_of(c.tokens) = n
                 /\ c.in = (IF ss.mems_arg = <<>> THEN 0 ELSE ss.mems_arg[1])
            ELSE /\ DOMAIN c.tokens = {0} /\ DOMAIN c.tokens[0] = {0}
                 /\ c.tokens[0][0] = ss.prevs[k - 1]
                 /\ c.tokens[0][0] = ss.tokens[0][n + c.counter - 1]
                 /\ c.counter = k - 1
                 /\ c.position_ids = [b \in {0} |-> [i \in {0} |-> n + c.counter - 1]]
                 /\ DOMAIN c.attention_mask[0][0][0] = 0..ss_args.mem_length
                 /\ \A j \in 0..ss_args.mem_length : c.attention_mask[0][0][0][j] = 1
                 /\ c.in = ss_calls[k - 1].out
                 /\ c.in = k - 1

\* C16 witness: sample_sequence has returned after three model calls on a
\* context of two tokens, having been given mems by its caller.
C16_Witness ==
    /\ ss.pc = "returned"
    /\ ss.mems_arg # <<>>
    /\ ss.org_context_length = 2
    /\ Len(ss_calls) = 3
    /\ ss_calls[3].position_ids[0][0] = 3
    /\ ss_args.mem_length = 2

\* =========================================================================
\* Claims about the broadcasts of read_context
\* =========================================================================

\* C17: after read_context returns, every rank of the model-parallel group
\* holds the same terminate flag as the source rank and, when the run is not
\* terminated, the same context length and the same context token ids, which
\* are those of the prompt rank 0 accepted; a non-source rank allocates its
\* receive buffer with exactly the broadcast context length.
C17_RanksAgreeOnContext ==
    rc # <<>> =>
      \A r \in Ranks :
        /\ (rc[r].pc = "bcast_tokens" /\ r # SrcRank) =>
             /\ rc[r].context_length = rbc[2][1]
             /\ Len(context_tokens_buffer(rc[r].context_length)) = rbc[2][1]
        /\ rc[r].pc = "returned" =>
             /\ rc[SrcRank].pc = "returned"
             /\ rc[r].ret[1].terminate_runs = rc[SrcRank].ret[1].terminate_runs
             /\ rc[r].ret[1].terminate_runs = 0 =>
                  /\ rc[r].ret[1].context_length = rc[SrcRank].ret[1].context_length
                  /\ rc[r].ret[1].context_tokens_tensor =
                        rc[SrcRank].ret[1].context_tokens_tensor
                  /\ rc[r].ret[1].context_tokens_tensor = EncodeAsIds(rc[0].raw_text)
                  /\ Len(rc[r].ret[1].context_tokens_tensor) =
                        rc[r].ret[1].context_length
                  /\ ~TooLong(rc[r].ret[1].context_length, gs_args.seq_length)
                  /\ r # SrcRank =>
                       /\ Len(rc[r].ret[1].context_tokens_tensor) = rbc[2][1]
                       /\ rc[r].ret[1].context_tokens_tensor = rbc[3]

\* C17 witness: a non-source rank has returned the two tokens of the prompt
\* rank 0 accepted.
C17_Witness ==
    /\ rc # <<>>
    /\ rc[1].pc = "returned"
    /\ rc[1].ret[1].terminate_runs = 0
    /\ rc[1].ret[1].context_length = 2
    /\ rc[1].ret[1].context_tokens_tensor = <<1, 2>>
    /\ rc[1].ret[1].raw_text = <<"a", "stop">>

\* C17 witness of a terminated run: a non-source rank returned the flag 1.
C17_WitnessStop ==
    /\ rc # <<>>
    /\ rc[1].pc = "returned"
    /\ rc[1].ret[1].terminate_runs = 1

\* =========================================================================
\* Claims about the datasets of CogView and ProtTrans
\* =========================================================================

\* ml as the claim gives it.
ClaimedMl ==
    IF call.args.finetune
         /\ call.args.max_position_embeddings_finetune
              > call.args.max_position_embeddings
      THEN call.args.max_position_embeddings_finetune
      ELSE call.args.max_position_embeddings

\* C18: for every stored row process_fn returns 'text' of length exactly ml and
\* 'loss_mask' of the same length made of min(n, ml) ones followed by
\* ml - min(n, ml) zeros, n being the unpadded length: shorter sequences are
\* right-padded with the [PAD] id, longer ones truncated to their first ml
\* tokens; ml is max_position_embeddings_finetune when finetuning with a larger
\* finetune limit and max_position_embeddings otherwise.
C18_PaddedTextAndLossMask ==
    call.fn = "process_fn" =>
      LET ml == ClaimedMl
          n == Len(call.unpadded)
      IN  /\ Len(ret.text) = ml
          /\ Len(ret.loss_mask) = ml
          /\ \A k \in 1..ml :
               /\ ret.loss_mask[k] = (IF k <= Min(n, ml) THEN 1 ELSE 0)
               /\ ret.text[k] = (IF k <= n THEN call.unpadded[k] ELSE call.pad)

\* C18 witness: a finetuning run with the larger finetune limit 3 pads a row
\* of two lines of one token with one [PAD].
C18_Witness ==
    /\ call.fn = "process_fn"
    /\ call.dataset_type = "TokenizedDataset"
    /\ call.args.finetune
    /\ call.args.max_position_embeddings = 2
    /\ call.args.max_position_embeddings_finetune = 3
    /\ Len(call.unpadded) = 2
    /\ ret.text = call.unpadded \o <<call.pad>>
    /\ ret.loss_mask = <<1, 1, 0>>

\* C18 witness of a truncation: a templated sequence of four ids cut to two.
C18_WitnessTruncated ==
    /\ call.fn = "process_fn"
    /\ call.dataset_type = "TextCodeDataset"
    /\ Len(call.unpadded) = 4
    /\ Len(ret.text) = 2
    /\ ret.loss_mask = <<1, 1>>

\* C19: build_samples returns a label array of length exactly max_seq_length
\* for every label list: entry 0 is -1 (the [cls] slot), entry i equals the
\* original label i - 1 for 1 <= i < min(len(label) + 1, max_seq_length), and
\* every remaining entry is -1; __getitem__ reports
\* seq_len = min(tokenized length + 1, max_seq_length).
C19_LabelArray ==
    call.fn = "getitem" =>
      LET msl == call.max_seq_length
          label == call.item.ss3
      IN  /\ Len(ret.label) = msl
          /\ ret.label[1] = -1
          /\ \A i \in 1..(msl - 1) :
               ret.label[i + 1] =
                  (IF i < Min(Len(label) + 1, msl) THEN label[i] ELSE -1)
          /\ ret.seq_len = Min(call.built.seq_len + 1, msl)
          /\ ret.text = call.built.ids
          /\ ret.padding_mask = call.built.paddings

\* C19 witness: four labels cut to fit a max_seq_length of three.
C19_Witness ==
    /\ call.fn = "getitem"
    /\ call.max_seq_length = 3
    /\ Len(call.item.ss3) = 4
    /\ ret.label = <<-1, call.item.ss3[1], call.item.ss3[2]>>
    /\ ret.seq_len = 3

\* C19 witness of a padding: one label in a max_seq_length of three.
C19_WitnessPadded ==
    /\ call.fn = "getitem"
    /\ call.max_seq_length = 3
    /\ call.item.ss3 = <<2>>
    /\ ret.label = <<-1, 2, -1>>
    /\ ret.seq_len = 1

====
